---- MODULE Spec2Model ----
(***************************************************************************)
(* A model of the cps-future library.                                      *)
(*                                                                         *)
(*   cps::future<T>     src/include/cps/future/implementation.h            *)
(*   cps::base_future   src/include/cps/base_future.h                      *)
(*                                                                         *)
(* The library runs every callback synchronously on the thread that        *)
(* resolves a future or registers the callback, so each thread is modelled *)
(* as a call stack of frames; one step of a thread executes the top frame  *)
(* up to its next access to shared state.  The two classes never call each *)
(* other, so a run of the client uses one of them (impl).                  *)
(***************************************************************************)
EXTENDS Integers, Sequences, FiniteSets, TLC

\* ------------------------------------------------------------ bounds
\* calls the client makes from the top level in one run
MaxCalls == 3
\* calls the two threads of a concurrent client make in one run
MaxCallsMT == 3
\* the same, in the runs where two resolutions race over queued callbacks
MaxCallsRace == 4
\* calls a client of then() makes in one run
MaxCallsThen == 4
\* calls the two threads of a client of then() make in one run
MaxCallsThenMT == 3
\* calls the two threads of a client that reads a future make in one run
MaxCallsRead == 3

Threads == {"t1", "t2"}
\* the cps::future<T> objects and the cps::base_future objects of the client
\* (f is the future the client resolves and chains from, seq the future
\* f->then() returns, g the future the function given to then() returns, h
\* the future its failure handlers return)
Futs == {"f", "g", "seq", "h"}
\* (b is the base_future of a client of one future; i1 and i2 are the inputs
\* a client gives to needs_all, na the future needs_all returns; tg is the
\* target a client gives to b->propagate; lf is the future repeat returns, nx
\* its local future next, b1 and b2 the futures the client's function each
\* returns on its first and second call, n1 and n2 the futures then() makes
\* for them)
BaseFuts == {"b", "i1", "i2", "na", "tg", "lf", "nx", "b1", "b2", "b3", "n1", "n2", "n3"}
\* the client passes a different value, and a different message, on each call
ValueOf(n) == 10 + n
ReasonOf(n) == <<"r1", "r2", "r3", "r4", "r5", "r6", "r7", "r8">>[n]
\* T(), the value a future<T> holds before done() stores one
DefaultValue == 0

\* ------------------------------------------------------------ exceptions
NoEx == [type |-> "none", what |-> ""]
\* apply_state: throw std::logic_error("tried to resolve future twice, ...")
DoubleResolve == [type |-> "logic_error", what |-> "tried to resolve future twice"]
\* fail(string) wraps the message: fail(std::runtime_error(ex))
RuntimeError(m) == [type |-> "runtime_error", what |-> m]
\* what a client callback throws: a std::exception, or a std::string
CallbackError == [type |-> "runtime_error", what |-> "callback"]
StringError == [type |-> "string", what |-> "callback"]

\* base_future::exception: the constructor drops the std::exception it is
\* given and sets reason_ to "unknown"
exception(m) == [null |-> FALSE, reason |-> "unknown"]
NoException == [null |-> TRUE, reason |-> ""]

\* the failure reason fail() and fail_exception_pointer() store: e.what()
\* for a std::exception, "unknown" for anything else
ReasonUnknown(e) == "unknown"
Reason(e) == IF e.type = "string" THEN "unknown" ELSE e.what

\* ------------------------------------------------------------ callbacks
\* A std::function the client registers.  kind is the registration, id
\* identifies the client's code, beh is what that code does:
\*   "rec"        returns normally
\*   "throw"      throws a std::runtime_error
\*   "throw_str"  throws a std::string
\*   "reg"        registers another callback of the same kind on the same
\*                future (parent is then the id of the registering code)
CbKinds == {"on_done", "on_fail", "on_cancel", "on_ready"}
CbBehs == {"rec", "throw", "throw_str", "reg"}
Callback(kind, id, beh, parent) ==
    [kind |-> kind, id |-> id, beh |-> beh, parent |-> parent, tgt |-> "none",
     hs |-> <<>>]
NoCb == Callback("none", 0, "none", 0)

\* The lambdas then() registers.  kind "then" is the one given to
\* call_when_ready on the source (beh is what the client's function ok does:
\* "ret" returns the future g, "throw" throws); the others are registered on
\* the future ok returned, to carry its outcome to tgt:
\*   "w_done"    [f](inner_type v) { f->done(v); }
\*   "w_fail"    [f, inner](const std::string &) { f->fail_from(*inner); }
\*   "w_cancel"  [f]() { f->cancel(); }
\* and on the derived future, to cancel the inner one:
\*   "w_fwd"     [inner]() { inner->cancel(); }
Wiring(kind, beh, tgt) ==
    [kind |-> kind, id |-> 0, beh |-> beh, parent |-> 0, tgt |-> tgt, hs |-> <<>>]

\* A failure handler given to then(), as exception_hoisting_callback wraps
\* it.  accepts is the parameter type of the client's code: "string" (the
\* code is passed e.what() of any std::exception) or the name of an exception
\* class (the code is passed the error when it is of that class); beh is what
\* the code does when called: "ret" returns the future h, "throw" throws.
Handler(accepts, beh) == [accepts |-> accepts, beh |-> beh]
\* the lambda then() gives to call_when_ready, with its captures ok and items
ThenCallback(okbeh, hs, tgt) ==
    [kind |-> "then", id |-> 0, beh |-> okbeh, parent |-> 0, tgt |-> tgt, hs |-> hs]
\* does the wrapper of handler hd call the client's code for the error e?
\*   string handler: catch(const std::exception &e) { matched = true; ... }
\*   typed handler:  catch(const exception_type &e) { return code(e); }
HandlerAccepts(hd, e) ==
    IF hd.accepts = "string"
    THEN e.type \in {"runtime_error", "logic_error"}
    ELSE e.type = hd.accepts

\* ------------------------------------------------------------ state
\* The lambdas needs_all registers on each input: beh is the lambda
\*   "na_ok"    ok, given to on_done
\*   "na_fail"  fail_handler, given to on_fail
\*   "na_can"   can, given to on_cancel
\* and tgt is the future f they capture
NaBehs == {"na_ok", "na_fail", "na_can"}
NaCallback(kind, beh, tgt) ==
    [kind |-> kind, id |-> 0, beh |-> beh, parent |-> 0, tgt |-> tgt, hs |-> <<>>]

\* The lambdas propagate, then(seq) and repeat register; tgt is the future f
\* they capture:
\*   "pg_done"    propagate   [f]() { f->done(); }
\*   "pg_cancel"  propagate   [f]() { f->cancel(); }
\*   "pg_fail"    propagate   [f](exception &e) { f->fail(e); }
\*   "th_done"    then        if(f->is_ready()) return; auto s = ok(); s->propagate(f);
\*   "th_fail"    then        if(f->is_ready()) return; f->fail(ex);
\*   "th_cancel"  then        if(f->is_ready()) return; f->cancel();
\*   "rp_fail"    repeat      [f](exception &ex) { f->fail(ex); }
\*   "rp_cancel"  repeat      [f]() { f->fail("cancelled"); }
\*   "rp_keep"    repeat      [f](ptr in) { }
\*   "rp_hold"    repeat      [code](ptr) { return create()->done(); }
LamBehs == {"pg_done", "pg_cancel", "pg_fail", "th_done", "th_fail", "th_cancel",
            "rp_fail", "rp_cancel", "rp_keep", "rp_hold"}
LamCallback(kind, beh, tgt) ==
    [kind |-> kind, id |-> 0, beh |-> beh, parent |-> 0, tgt |-> tgt, hs |-> <<>>]

VARIABLES
    \* the class the client uses: "future" or "base_future"
    impl,
    \* cps::future<T> members
    state_, value_, failure_reason_, ex_, tasks_, mutex_,
    \* cps::base_future members
    base_state_, base_ex_, on_done_, on_fail_, on_cancel_,
    \* base_future::needs_all: the shared counter and the shared vector its
    \* handlers capture
    count, p,
    \* each thread's call stack (top is the last frame)
    stack,
    \* the top-level call each thread is in (index into ops, 0 when idle)
    cur,
    \* history: the top-level calls made, with their outcome
    ops,
    \* history: the invocations of client callbacks, in order
    calls,
    \* history: what the first transition of each future<T> stored
    first,
    \* ids handed to registered callbacks
    nextId

tvars == <<state_, value_, failure_reason_, ex_, tasks_, mutex_>>
bvars == <<base_state_, base_ex_, on_done_, on_fail_, on_cancel_>>
navars == <<count, p>>
vars == <<impl, tvars, bvars, navars, stack, cur, ops, calls, first, nextId>>

\* ------------------------------------------------------------ future<T> observers
is_ready_when_done(f) == state_[f] = "done"
is_ready(f) == state_[f] # "pending"
is_done(f) == state_[f] = "done"
is_failed(f) == state_[f] = "failed"
is_cancelled(f) == state_[f] = "cancelled"
is_pending(f) == state_[f] = "pending"

\* value(): const state s { state_ }; switch(s) { ... }: what it returns or
\* throws once it has read the state s
value_whatever(s, f) == [ok |-> TRUE, v |-> value_[f], ex |-> NoEx]
value_in(s, f) ==
    CASE s = "pending" -> [ok |-> FALSE, v |-> DefaultValue,
                           ex |-> RuntimeError("future is not complete")]
      [] s = "failed" -> [ok |-> FALSE, v |-> DefaultValue,
                          ex |-> IF ex_[f] # NoEx THEN ex_[f]
                                 ELSE [type |-> "logic_error",
                                       what |-> "no exception available"]]
      [] s = "cancelled" -> [ok |-> FALSE, v |-> DefaultValue,
                             ex |-> RuntimeError("future was cancelled")]
      [] OTHER -> [ok |-> TRUE, v |-> value_[f], ex |-> NoEx]

\* value(): the value when done, otherwise an exception
value(f) == value_in(state_[f], f)

\* failure_reason(): if(state_ != state::failed) throw ...; return
\* failure_reason_;  what it returns or throws once it has read the state s
failure_reason_whatever(s, f) == [ok |-> TRUE, r |-> failure_reason_[f], ex |-> NoEx]
failure_reason_in(s, f) ==
    IF s # "failed"
    THEN [ok |-> FALSE, r |-> "", ex |-> RuntimeError("future is not failed")]
    ELSE [ok |-> TRUE, r |-> failure_reason_[f], ex |-> NoEx]

\* failure_reason(): the reason when failed, otherwise an exception
failure_reason(f) == failure_reason_in(state_[f], f)

NoSnapshot == [state |-> "pending", value |-> DefaultValue, reason |-> ""]
Snapshot(f) == [state |-> state_[f], value |-> value_[f], reason |-> failure_reason_[f]]

\* ------------------------------------------------------------ base_future observers
base_is_pending(b) == base_state_[b] = "pending"
base_is_ready(b) == base_state_[b] # "pending"
base_is_failed(b) == base_state_[b] = "failed"
base_is_done(b) == base_state_[b] = "complete"
base_is_cancelled(b) == base_state_[b] = "cancelled"
\* failure(): if(!is_failed()) throw fail_exception(...); return ex_->reason();
failure(b) ==
    IF ~base_is_failed(b)
    THEN [ok |-> FALSE, r |-> "",
          ex |-> [type |-> "fail_exception", what |-> "this base_future is not failed"]]
    ELSE [ok |-> TRUE, r |-> base_ex_[b].reason, ex |-> NoEx]

\* ------------------------------------------------------------ frames
Frame(op, fut, pc, cb, s, val, ex, pend) ==
    [op |-> op, fut |-> fut, pc |-> pc, cb |-> cb, s |-> s, val |-> val,
     ex |-> ex, pend |-> pend, inner |-> "none"]

ApplyFrame(f, s, v, e) == Frame("apply_state", f, "lock", NoCb, s, v, e, <<>>)
RegisterFrame(f, cb) == Frame("call_when_ready", f, "lock", cb, "pending", 0, NoEx, <<>>)
ThenFrame(f, cb) == Frame("then", f, "start", cb, "pending", 0, NoEx, <<>>)
BaseResolveFrame(b, s, m) == Frame("base_resolve", b, "mark", NoCb, s, 0, RuntimeError(m), <<>>)
\* needs_all once p and count are made, at its n-th registration; one of
\* its lambdas running for the input b
NeedsAllFrame(f) == Frame("needs_all", f, "register", NoCb, "pending", 0, NoEx, <<>>)
NaHandlerFrame(b, cb) == Frame("na_handler", b, "check", cb, "pending", 1, NoEx, <<>>)
\* value() or failure_reason() once it has read the state s
ReadFrame(op, f, s) == Frame(op, f, "switch", NoCb, s, 0, NoEx, <<>>)
\* fail(exception &ex) on b: ex_ becomes a copy of ex
BaseFailFrame(b, e) ==
    Frame("base_resolve", b, "mark", NoCb, "failed", 0,
          [type |-> "exception", what |-> e.reason], <<>>)
\* a lambda of LamBehs running for the future b it was registered on
LambdaFrame(b, cb) == Frame("lambda", b, "start", cb, "pending", 0, NoEx, <<>>)
\* src->propagate(tgt) at its next registration
PropagateFrame(src, tgt) ==
    Frame("propagate", src, "on_done", LamCallback("none", "propagate", tgt), "pending",
          0, NoEx, <<>>)
\* repeat(check, each), and recurse(in) in its j-th activation
RepeatFrame(f) == Frame("repeat", f, "keep", NoCb, "pending", 0, NoEx, <<>>)
RecurseFrame(in, j) == Frame("recurse", in, "start", NoCb, "pending", j, NoEx, <<>>)
BaseRegisterFrame(b, cb) == Frame("base_register", b, "check", cb, "pending", 0, NoEx, <<>>)

Idle(t) == stack[t] = <<>>
Top(t) == stack[t][Len(stack[t])]
Below(t) == SubSeq(stack[t], 1, Len(stack[t]) - 1)
SetTop(t, fr) == [stack EXCEPT ![t] = Append(Below(t), fr)]
PushOn(t, fr, callee) == [stack EXCEPT ![t] = Append(Append(Below(t), fr), callee)]

\* ------------------------------------------------------------ history
ResolveKinds == {"done", "fail", "cancel"}

StateFor(kind) ==
    CASE kind = "done" -> "done"
      [] kind = "fail" -> "failed"
      [] kind = "cancel" -> "cancelled"

BaseStateFor(kind) ==
    CASE kind = "done" -> "complete"
      [] kind = "fail" -> "failed"
      [] kind = "cancel" -> "cancelled"

\* the call another thread is inside (0 when there is none)
Other(t) == IF \E u \in Threads \ {t} : cur[u] # 0
            THEN cur[CHOOSE u \in Threads \ {t} : cur[u] # 0]
            ELSE 0

\* a top-level call: who made it, what it asked, the state it found, the call
\* it overlaps, how it ended, whether it made the transition, whether it
\* queued its callback (and, for then(), the failure handlers it was given)
Op(t, kind, f, v, m, id, pre) ==
    [t |-> t, kind |-> kind, fut |-> f, val |-> v, why |-> m, id |-> id,
     pre |-> pre, with |-> Other(t), res |-> "run", err |-> NoEx, won |-> FALSE,
     queued |-> FALSE, hs |-> <<>>]

Crashed == \E i \in 1..Len(ops) : ops[i].res = "crashed"

\* ------------------------------------------------------------ returning and throwing
\* the top frame returns to its caller; the bottom frame returns to the client
PopFrame(t) ==
    /\ stack' = [stack EXCEPT ![t] = Below(t)]
    /\ IF Len(stack[t]) = 1
       THEN /\ ops' = [ops EXCEPT ![cur[t]].res = "ok"]
            /\ cur' = [cur EXCEPT ![t] = 0]
       ELSE UNCHANGED <<ops, cur>>

\* frames whose code encloses the call above them in a try block that
\* handles e: base_future's drain loops swallow a std::string
\* (catch(std::string)) and rethrow everything else (catch(...) { throw; })
\* the lambda of then() runs in try { ... } catch(...)
Catches(fr, e) ==
    \/ /\ fr.op = "base_resolve"
       /\ fr.pc = "drain"
       /\ e.type = "string"
    \/ /\ fr.op = "then"
       /\ fr.pc \in {"start", "on_done", "on_fail", "on_cancel", "fwd", "ret"}

\* the frame once its handler has run
Caught(fr, e) ==
    IF fr.op = "base_resolve" THEN fr ELSE [fr EXCEPT !.pc = "catch", !.ex = e]

\* e is thrown inside the frames stk of thread t: the stack unwinds to the
\* nearest enclosing handler, or to the client when no frame catches
Throw(t, stk, e) ==
    LET handlers == {i \in 1..Len(stk) : Catches(stk[i], e)} IN
    IF handlers # {}
    THEN LET h == CHOOSE i \in handlers : \A j \in handlers : j <= i
         IN /\ stack' = [stack EXCEPT ![t] =
                            Append(SubSeq(stk, 1, h - 1), Caught(stk[h], e))]
            /\ UNCHANGED <<ops, cur>>
    ELSE /\ stack' = [stack EXCEPT ![t] = <<>>]
         /\ ops' = [ops EXCEPT ![cur[t]].res = "threw", ![cur[t]].err = e]
         /\ cur' = [cur EXCEPT ![t] = 0]

\* the client's code cb runs, called by the top frame, which is fr once the
\* call returns; c records the invocation, child is the registration a
\* "reg" callback makes
Invoke(t, fr, cb, c, child) ==
    /\ calls' = Append(calls, c)
    /\ CASE cb.beh = "throw" ->
              /\ Throw(t, Append(Below(t), fr), CallbackError)
              /\ UNCHANGED nextId
         [] cb.beh = "throw_str" ->
              /\ Throw(t, Append(Below(t), fr), StringError)
              /\ UNCHANGED nextId
         [] cb.beh = "reg" ->
              /\ stack' = PushOn(t, fr, child)
              /\ nextId' = nextId + 1
              /\ UNCHANGED <<ops, cur>>
         [] cb.beh \in NaBehs ->
              /\ stack' = PushOn(t, fr, NaHandlerFrame(fr.fut, cb))
              /\ UNCHANGED <<nextId, ops, cur>>
         [] cb.beh \in LamBehs ->
              /\ stack' = PushOn(t, fr, LambdaFrame(fr.fut, cb))
              /\ UNCHANGED <<nextId, ops, cur>>
         [] OTHER ->
              /\ stack' = SetTop(t, fr)
              /\ UNCHANGED <<nextId, ops, cur>>

\* ------------------------------------------------------------ future<T>: callbacks
\* the lambdas on_done/on_fail/on_cancel wrap the client's code in:
\* is the future in the state the registration was for?
Matches(kind, f) ==
    CASE kind = "on_done" -> is_done(f)
      [] kind = "on_fail" -> is_failed(f)
      [] kind = "on_cancel" -> is_cancelled(f)
      [] kind = "on_ready" -> TRUE
      [] OTHER -> FALSE

\* one invocation of the client's code: what it was passed and what it saw
Call(t, f, cb) ==
    [id |-> cb.id, kind |-> cb.kind, beh |-> cb.beh, parent |-> cb.parent, fut |-> f,
     val |-> IF cb.kind = "on_done" THEN value(f).v ELSE DefaultValue,
     why |-> IF cb.kind = "on_fail" THEN failure_reason(f).r ELSE "",
     st |-> state_[f], t |-> t, op |-> cur[t], queued |-> Len(tasks_[f])]

\* fail_from(src) called on tgt: apply_state with me.ex_ = src's exception and
\* me.failure_reason_ = its what() (the caller has tested src.is_failed())
fail_from_unknown(tgt, src) == ApplyFrame(tgt, "failed", DefaultValue, StringError)
fail_from(tgt, src) == ApplyFrame(tgt, "failed", DefaultValue, ex_[src])

\* the call a lambda registered by then() makes when it is run on future f
WiringCall(f, cb) ==
    CASE cb.kind = "then" -> ThenFrame(f, cb)
      [] cb.kind = "w_done" -> ApplyFrame(cb.tgt, "done", value(f).v, NoEx)
      [] cb.kind = "w_fail" -> fail_from(cb.tgt, f)
      [] cb.kind \in {"w_cancel", "w_fwd"} ->
            ApplyFrame(cb.tgt, "cancelled", DefaultValue, NoEx)

WiringMatchesThenOnly(kind, f) == kind = "then"
WiringMatches(kind, f) ==
    CASE kind = "then" -> TRUE
      [] kind = "w_done" -> is_done(f)
      [] kind = "w_fail" -> is_failed(f)
      [] kind \in {"w_cancel", "w_fwd"} -> is_cancelled(f)
      [] OTHER -> FALSE

\* code(*this) for a lambda of on_done/on_fail/on_cancel/on_ready or of then()
RunCallback(t, fr, cb) ==
    IF cb.kind \in CbKinds /\ Matches(cb.kind, fr.fut)
    THEN Invoke(t, fr, cb, Call(t, fr.fut, cb),
                RegisterFrame(fr.fut, Callback(cb.kind, nextId, "rec", cb.id)))
    ELSE /\ stack' = IF WiringMatches(cb.kind, fr.fut)
                     THEN PushOn(t, fr, WiringCall(fr.fut, cb))
                     ELSE SetTop(t, fr)
         /\ UNCHANGED <<calls, nextId, ops, cur>>

\* ------------------------------------------------------------ future<T>: the client
\* f->done(v), f->fail(message), f->cancel() from the top level
CallResolve(t, f, kind, max) ==
    LET n == Len(ops) + 1
        v == IF kind = "done" THEN ValueOf(n) ELSE DefaultValue
        m == IF kind = "fail" THEN ReasonOf(n) ELSE ""
    IN
    /\ impl = "future"
    /\ Idle(t)
    /\ Len(ops) < max
    /\ stack' = [stack EXCEPT ![t] =
            <<ApplyFrame(f, StateFor(kind), v,
                         IF kind = "fail" THEN RuntimeError(m) ELSE NoEx)>>]
    /\ ops' = Append(ops, Op(t, kind, f, v, m, 0, state_[f]))
    /\ cur' = [cur EXCEPT ![t] = n]
    /\ UNCHANGED <<impl, navars, tvars, bvars, calls, first, nextId>>

\* f->on_done(code), f->on_fail(code), f->on_cancel(code), f->on_ready(code)
CallRegister(t, f, kind, beh, max) ==
    /\ impl = "future"
    /\ Idle(t)
    /\ Len(ops) < max
    /\ stack' = [stack EXCEPT ![t] = <<RegisterFrame(f, Callback(kind, nextId, beh, 0))>>]
    /\ ops' = Append(ops, Op(t, kind, f, DefaultValue, "", nextId, state_[f]))
    /\ cur' = [cur EXCEPT ![t] = Len(ops) + 1]
    /\ nextId' = nextId + 1
    /\ UNCHANGED <<impl, navars, tvars, bvars, calls, first>>

\* ------------------------------------------------------------ future<T>::apply_state
\* if(state_ != state::pending) throw ...: the test made under the lock
AlreadyResolvedNever(f) == FALSE
AlreadyResolved(f) == state_[f] # "pending"

\* state_ = s;
PublishNothing(f, s) == state_
Publish(f, s) == [state_ EXCEPT ![f] = s]

\* f.value_ = std::move(v);   the code done() hands to apply_state
StoreValueNever(f, s, v) == value_
StoreValue(f, s, v) == IF s = "done" THEN [value_ EXCEPT ![f] = v] ELSE value_

\* } the scope of the lock_guard ends: the mutex is released
UnlockNever(f) == mutex_
Unlock(f) == [mutex_ EXCEPT ![f] = "free"]

\* lock_guard; if(state_ != pending) throw std::logic_error(...);
\* code(*this); pending = std::move(tasks_); tasks_.clear();
ApplyLock(t) ==
    LET fr == Top(t) IN
    /\ ~Idle(t) /\ fr.op = "apply_state" /\ fr.pc = "lock"
    /\ mutex_[fr.fut] = "free"
    /\ IF AlreadyResolved(fr.fut)
       THEN /\ Throw(t, Below(t), DoubleResolve)
            /\ UNCHANGED <<mutex_, value_, failure_reason_, ex_, tasks_>>
       ELSE /\ mutex_' = [mutex_ EXCEPT ![fr.fut] = t]
            /\ value_' = StoreValue(fr.fut, fr.s, fr.val)
            /\ failure_reason_' = IF fr.s = "failed"
                                  THEN [failure_reason_ EXCEPT ![fr.fut] = Reason(fr.ex)]
                                  ELSE failure_reason_
            /\ ex_' = IF fr.s = "failed" THEN [ex_ EXCEPT ![fr.fut] = fr.ex] ELSE ex_
            /\ tasks_' = [tasks_ EXCEPT ![fr.fut] = <<>>]
            /\ stack' = SetTop(t, [fr EXCEPT !.pc = "state", !.pend = tasks_[fr.fut]])
            /\ UNCHANGED <<ops, cur>>
    /\ UNCHANGED <<impl, navars, state_, bvars, calls, first, nextId>>

\* state_ = s; and the lock_guard's scope ends
ApplyState(t) ==
    LET fr == Top(t) IN
    /\ ~Idle(t) /\ fr.op = "apply_state" /\ fr.pc = "state"
    /\ state_' = Publish(fr.fut, fr.s)
    /\ mutex_' = Unlock(fr.fut)
    /\ first' = IF first[fr.fut].state = "pending"
                THEN [first EXCEPT ![fr.fut] =
                        [state |-> fr.s, value |-> value_[fr.fut],
                         reason |-> failure_reason_[fr.fut]]]
                ELSE first
    /\ ops' = IF Len(stack[t]) = 1 THEN [ops EXCEPT ![cur[t]].won = TRUE] ELSE ops
    /\ stack' = SetTop(t, [fr EXCEPT !.pc = "drain"])
    /\ UNCHANGED <<impl, navars, value_, failure_reason_, ex_, tasks_, bvars, cur, calls, nextId>>

\* for(auto &v : pending) v(*this);   one iteration
ApplyDrain(t) ==
    LET fr == Top(t) IN
    /\ ~Idle(t) /\ fr.op = "apply_state" /\ fr.pc = "drain"
    /\ fr.pend # <<>>
    /\ RunCallback(t, [fr EXCEPT !.pend = Tail(@)], Head(fr.pend))
    /\ UNCHANGED <<impl, navars, tvars, bvars, first>>

\* return shared();  (shared() takes the mutex)
ApplyReturn(t) ==
    LET fr == Top(t) IN
    /\ ~Idle(t) /\ fr.op = "apply_state" /\ fr.pc = "drain"
    /\ fr.pend = <<>>
    /\ mutex_[fr.fut] = "free"
    /\ PopFrame(t)
    /\ UNCHANGED <<impl, navars, tvars, bvars, calls, first, nextId>>

\* ------------------------------------------------------------ future<T>::call_when_ready
\* ready = state_ != state::pending;
ReadyNever(f) == FALSE
Ready(f) == state_[f] # "pending"

\* { lock_guard; ready = state_ != pending; if(!ready) tasks_.push_back(code); }
RegisterLock(t) ==
    LET fr == Top(t) IN
    /\ ~Idle(t) /\ fr.op = "call_when_ready" /\ fr.pc = "lock"
    /\ mutex_[fr.fut] = "free"
    /\ IF Ready(fr.fut)
       THEN /\ stack' = SetTop(t, [fr EXCEPT !.pc = "call"])
            /\ UNCHANGED <<tasks_, ops>>
       ELSE /\ tasks_' = [tasks_ EXCEPT ![fr.fut] = Append(@, fr.cb)]
            /\ stack' = SetTop(t, [fr EXCEPT !.pc = "ret"])
            /\ ops' = IF Len(stack[t]) = 1 THEN [ops EXCEPT ![cur[t]].queued = TRUE] ELSE ops
    /\ UNCHANGED <<impl, navars, state_, value_, failure_reason_, ex_, mutex_, bvars, cur, calls,
                   first, nextId>>

\* if(ready) code(*this);
RegisterCall(t) ==
    LET fr == Top(t) IN
    /\ ~Idle(t) /\ fr.op = "call_when_ready" /\ fr.pc = "call"
    /\ RunCallback(t, [fr EXCEPT !.pc = "ret"], fr.cb)
    /\ UNCHANGED <<impl, navars, tvars, bvars, first>>

\* return shared();
RegisterReturn(t) ==
    LET fr == Top(t) IN
    /\ ~Idle(t) /\ fr.op = "call_when_ready" /\ fr.pc = "ret"
    /\ mutex_[fr.fut] = "free"
    /\ PopFrame(t)
    /\ UNCHANGED <<impl, navars, tvars, bvars, calls, first, nextId>>

\* ------------------------------------------------------------ future<T>::value, failure_reason
\* f->value() or f->failure_reason() from the top level: the state is read
\* (no lock is taken)
CallRead(t, f, op, max) ==
    /\ impl = "future"
    /\ Idle(t)
    /\ Len(ops) < max
    /\ stack' = [stack EXCEPT ![t] = <<ReadFrame(op, f, state_[f])>>]
    /\ ops' = Append(ops, Op(t, op, f, DefaultValue, "", 0, state_[f]))
    /\ cur' = [cur EXCEPT ![t] = Len(ops) + 1]
    /\ UNCHANGED <<impl, navars, tvars, bvars, calls, first, nextId>>

\* switch(s) { case pending: throw ...; case failed: rethrow_exception(ex_);
\*             case cancelled: throw ...; default: return value_; }
ValueSwitch(t) ==
    LET fr == Top(t)
        r == value_in(fr.s, fr.fut)
    IN
    /\ ~Idle(t) /\ fr.op = "value" /\ fr.pc = "switch"
    /\ stack' = [stack EXCEPT ![t] = <<>>]
    /\ ops' = [ops EXCEPT ![cur[t]].res = IF r.ok THEN "ok" ELSE "threw",
                          ![cur[t]].val = r.v, ![cur[t]].err = r.ex]
    /\ cur' = [cur EXCEPT ![t] = 0]
    /\ UNCHANGED <<impl, navars, tvars, bvars, calls, first, nextId>>

\* throw std::runtime_error("future is not failed"), or return failure_reason_;
FailureReasonReturn(t) ==
    LET fr == Top(t)
        r == failure_reason_in(fr.s, fr.fut)
    IN
    /\ ~Idle(t) /\ fr.op = "failure_reason" /\ fr.pc = "switch"
    /\ stack' = [stack EXCEPT ![t] = <<>>]
    /\ ops' = [ops EXCEPT ![cur[t]].res = IF r.ok THEN "ok" ELSE "threw",
                          ![cur[t]].why = r.r, ![cur[t]].err = r.ex]
    /\ cur' = [cur EXCEPT ![t] = 0]
    /\ UNCHANGED <<impl, navars, tvars, bvars, calls, first, nextId>>

\* ------------------------------------------------------------ future<T>::then
\* seq = f->then(ok): auto f = create_shared(); call_when_ready(lambda); return f;
CallThen(t, src, okbeh, hs, max) ==
    /\ impl = "future"
    /\ Idle(t)
    /\ Len(ops) < max
    /\ \A i \in 1..Len(ops) : ops[i].kind # "then"
    /\ stack' = [stack EXCEPT ![t] = <<RegisterFrame(src, ThenCallback(okbeh, hs, "seq"))>>]
    /\ ops' = Append(ops, [Op(t, "then", src, DefaultValue, "", 0, state_[src])
                             EXCEPT !.hs = hs])
    /\ cur' = [cur EXCEPT ![t] = Len(ops) + 1]
    /\ UNCHANGED <<impl, navars, tvars, bvars, calls, first, nextId>>

\* the client holds seq once then() has returned it
HasSeq == \E i \in 1..Len(ops) : ops[i].kind = "then" /\ ops[i].res # "run"

\* one invocation of ok(me.value()): the value passed, the state of g then
OkCall(t, fr) ==
    [id |-> 0, kind |-> "ok", beh |-> fr.cb.beh, parent |-> 0, fut |-> fr.fut,
     val |-> value(fr.fut).v, why |-> "", st |-> state_["g"], t |-> t, op |-> cur[t],
     queued |-> Len(tasks_[fr.fut])]

\* one invocation of the client's code of the k-th failure handler: the
\* message (or error) passed, the state of h then
HandlerCall(t, fr, k) ==
    [id |-> k, kind |-> "handler", beh |-> fr.cb.hs[k].beh, parent |-> 0, fut |-> fr.fut,
     val |-> DefaultValue, why |-> ex_[fr.fut].what, st |-> state_["h"], t |-> t,
     op |-> cur[t], queued |-> Len(tasks_[fr.fut])]

\* for(auto &it : items) { auto inner = it(me.ex_); if(inner) { ...; return; } }
\* the first handler whose wrapper calls its code for the error e (0: none)
FirstHandlerLast(hs, e) ==
    IF \E k \in 1..Len(hs) : HandlerAccepts(hs[k], e)
    THEN CHOOSE k \in 1..Len(hs) :
            /\ HandlerAccepts(hs[k], e)
            /\ \A j \in (k + 1)..Len(hs) : ~HandlerAccepts(hs[j], e)
    ELSE 0
FirstHandler(hs, e) ==
    IF \E k \in 1..Len(hs) : HandlerAccepts(hs[k], e)
    THEN CHOOSE k \in 1..Len(hs) :
            /\ HandlerAccepts(hs[k], e)
            /\ \A j \in 1..(k - 1) : ~HandlerAccepts(hs[j], e)
    ELSE 0

\* try { if(f->is_ready()) return;
\*       if(me.is_done()) { auto inner = ok(me.value()); ...
\*       } else if(me.is_failed()) { for(auto &it : items) ...; f->fail_from(me);
\*       } else if(me.is_cancelled()) { f->cancel(); }
ThenStart(t) ==
    LET fr == Top(t)
        me == fr.fut
        f == fr.cb.tgt
        k == FirstHandler(fr.cb.hs, ex_[me])
    IN
    /\ ~Idle(t) /\ fr.op = "then" /\ fr.pc = "start"
    /\ IF is_ready(f)
       THEN /\ stack' = [stack EXCEPT ![t] = Below(t)]
            /\ UNCHANGED calls
       ELSE IF is_done(me)
       THEN /\ calls' = Append(calls, OkCall(t, fr))
            /\ stack' = SetTop(t, IF fr.cb.beh = "throw"
                                  THEN [fr EXCEPT !.pc = "catch", !.ex = CallbackError]
                                  ELSE [fr EXCEPT !.pc = "on_done", !.inner = "g"])
       ELSE IF is_failed(me) /\ k # 0
       THEN /\ calls' = Append(calls, HandlerCall(t, fr, k))
            /\ stack' = SetTop(t, IF fr.cb.hs[k].beh = "throw"
                                  THEN [fr EXCEPT !.pc = "catch", !.ex = CallbackError]
                                  ELSE [fr EXCEPT !.pc = "on_done", !.inner = "h"])
       ELSE /\ stack' = PushOn(t, [fr EXCEPT !.pc = "ret"],
                               IF is_failed(me)
                               THEN fail_from(f, me)
                               ELSE ApplyFrame(f, "cancelled", DefaultValue, NoEx))
            /\ UNCHANGED calls
    /\ UNCHANGED <<impl, navars, tvars, bvars, ops, cur, first, nextId>>

\* inner->on_done([f](inner_type v) { f->done(v); })
\*      ->on_fail([f, inner](const std::string &) { f->fail_from(*inner); })
\*      ->on_cancel([f]() { f->cancel(); });
\* f->on_cancel([inner]() { inner->cancel(); });
ThenWire(t) ==
    LET fr == Top(t)
        f == fr.cb.tgt
    IN
    /\ ~Idle(t) /\ fr.op = "then"
    /\ fr.pc \in {"on_done", "on_fail", "on_cancel", "fwd"}
    /\ stack' =
          CASE fr.pc = "on_done" ->
                 PushOn(t, [fr EXCEPT !.pc = "on_fail"],
                        RegisterFrame(fr.inner, Wiring("w_done", "none", f)))
            [] fr.pc = "on_fail" ->
                 PushOn(t, [fr EXCEPT !.pc = "on_cancel"],
                        RegisterFrame(fr.inner, Wiring("w_fail", "none", f)))
            [] fr.pc = "on_cancel" ->
                 PushOn(t, [fr EXCEPT !.pc = "fwd"],
                        RegisterFrame(fr.inner, Wiring("w_cancel", "none", f)))
            [] fr.pc = "fwd" ->
                 PushOn(t, [fr EXCEPT !.pc = "ret"],
                        RegisterFrame(f, Wiring("w_fwd", "none", fr.inner)))
    /\ UNCHANGED <<impl, navars, tvars, bvars, ops, cur, calls, first, nextId>>

\* } catch(...) { auto ex = std::current_exception(); f->fail_exception_pointer(ex); }
ThenCatch(t) ==
    LET fr == Top(t) IN
    /\ ~Idle(t) /\ fr.op = "then" /\ fr.pc = "catch"
    /\ stack' = PushOn(t, [fr EXCEPT !.pc = "out"],
                       ApplyFrame(fr.cb.tgt, "failed", DefaultValue, fr.ex))
    /\ UNCHANGED <<impl, navars, tvars, bvars, ops, cur, calls, first, nextId>>

\* the lambda returns
ThenReturn(t) ==
    LET fr == Top(t) IN
    /\ ~Idle(t) /\ fr.op = "then" /\ fr.pc \in {"ret", "out"}
    /\ stack' = [stack EXCEPT ![t] = Below(t)]
    /\ UNCHANGED <<impl, navars, tvars, bvars, ops, cur, calls, first, nextId>>

\* ------------------------------------------------------------ base_future: callbacks
\* on_done/on_cancel/on_fail on a ready future: if(is_done()) code(); ...
BaseMatches(kind, b) ==
    CASE kind = "on_done" -> base_is_done(b)
      [] kind = "on_fail" -> base_is_failed(b)
      [] kind = "on_cancel" -> base_is_cancelled(b)
      [] kind = "on_ready" -> base_is_ready(b)
      [] OTHER -> FALSE

BaseQueued(b) == Len(on_done_[b]) + Len(on_fail_[b]) + Len(on_cancel_[b])

\* one invocation of the client's code; on_fail code is passed *ex_
BaseCall(t, b, cb) ==
    [id |-> cb.id, kind |-> cb.kind, beh |-> cb.beh, parent |-> cb.parent, fut |-> b,
     val |-> DefaultValue,
     why |-> IF cb.kind = "on_fail" THEN base_ex_[b].reason ELSE "",
     st |-> base_state_[b], t |-> t, op |-> cur[t], queued |-> BaseQueued(b)]

BaseRunCallback(t, fr, cb) ==
    Invoke(t, fr, cb, BaseCall(t, fr.fut, cb),
           BaseRegisterFrame(fr.fut, Callback(cb.kind, nextId, "rec", cb.id)))

\* ------------------------------------------------------------ base_future: the client
\* b->done(), b->fail(message), b->cancel() from the top level
CallBaseResolve(t, b, kind) ==
    LET n == Len(ops) + 1
        m == IF kind = "fail" THEN ReasonOf(n) ELSE ""
    IN
    /\ impl = "base_future"
    /\ Idle(t)
    /\ ~Crashed
    /\ Len(ops) < MaxCalls
    /\ stack' = [stack EXCEPT ![t] = <<BaseResolveFrame(b, BaseStateFor(kind), m)>>]
    /\ ops' = Append(ops, Op(t, kind, b, DefaultValue, m, 0, base_state_[b]))
    /\ cur' = [cur EXCEPT ![t] = n]
    /\ UNCHANGED <<impl, navars, tvars, bvars, calls, first, nextId>>

\* b->on_done(code), b->on_fail(code), b->on_cancel(code), b->on_ready(code)
CallBaseRegister(t, b, kind, beh) ==
    /\ impl = "base_future"
    /\ Idle(t)
    /\ ~Crashed
    /\ Len(ops) < MaxCalls
    /\ stack' = [stack EXCEPT ![t] = <<BaseRegisterFrame(b, Callback(kind, nextId, beh, 0))>>]
    /\ ops' = Append(ops, Op(t, kind, b, DefaultValue, "", nextId, base_state_[b]))
    /\ cur' = [cur EXCEPT ![t] = Len(ops) + 1]
    /\ nextId' = nextId + 1
    /\ UNCHANGED <<impl, navars, tvars, bvars, calls, first>>

\* ------------------------------------------------------------ base_future::done, fail, cancel
\* mark_ready(s): state_ = s, whatever the state was
mark_ready(b, s) == [base_state_ EXCEPT ![b] = s]

\* fail(message): ex_ = new exception(...); fail(exception &ex): ex_ = new
\* exception(ex), a copy; then, as in done() and cancel():
\* mark_ready(s); and the queues of the two other outcomes are cleared
BaseMark(t) ==
    LET fr == Top(t) IN
    /\ ~Idle(t) /\ fr.op = "base_resolve" /\ fr.pc = "mark"
    /\ base_ex_' = IF fr.s = "failed"
                   THEN [base_ex_ EXCEPT ![fr.fut] =
                            IF fr.ex.type = "exception"
                            THEN [null |-> FALSE, reason |-> fr.ex.what]
                            ELSE exception(fr.ex.what)]
                   ELSE base_ex_
    /\ base_state_' = mark_ready(fr.fut, fr.s)
    /\ on_done_' = IF fr.s # "complete" THEN [on_done_ EXCEPT ![fr.fut] = <<>>] ELSE on_done_
    /\ on_fail_' = IF fr.s # "failed" THEN [on_fail_ EXCEPT ![fr.fut] = <<>>] ELSE on_fail_
    /\ on_cancel_' = IF fr.s # "cancelled" THEN [on_cancel_ EXCEPT ![fr.fut] = <<>>]
                     ELSE on_cancel_
    /\ ops' = IF Len(stack[t]) = 1 THEN [ops EXCEPT ![cur[t]].won = TRUE] ELSE ops
    /\ stack' = SetTop(t, [fr EXCEPT !.pc = "drain"])
    /\ UNCHANGED <<impl, navars, tvars, cur, calls, first, nextId>>

\* the queue done(), fail() or cancel() drains
BaseQueue(b, s) ==
    CASE s = "complete" -> on_done_[b]
      [] s = "failed" -> on_fail_[b]
      [] s = "cancelled" -> on_cancel_[b]

\* while(!on_done_.empty()) { auto copy = on_done_; on_done_.clear(); ...
BaseCopy(t) ==
    LET fr == Top(t) IN
    /\ ~Idle(t) /\ fr.op = "base_resolve" /\ fr.pc = "drain"
    /\ fr.pend = <<>>
    /\ BaseQueue(fr.fut, fr.s) # <<>>
    /\ stack' = SetTop(t, [fr EXCEPT !.pend = BaseQueue(fr.fut, fr.s)])
    /\ on_done_' = IF fr.s = "complete" THEN [on_done_ EXCEPT ![fr.fut] = <<>>] ELSE on_done_
    /\ on_fail_' = IF fr.s = "failed" THEN [on_fail_ EXCEPT ![fr.fut] = <<>>] ELSE on_fail_
    /\ on_cancel_' = IF fr.s = "cancelled" THEN [on_cancel_ EXCEPT ![fr.fut] = <<>>]
                     ELSE on_cancel_
    /\ UNCHANGED <<impl, navars, tvars, base_state_, base_ex_, cur, ops, calls, first, nextId>>

\* for(auto &it : copy) { try { (it)(); } catch(std::string) {} catch(...) { throw; } }
BaseDrain(t) ==
    LET fr == Top(t) IN
    /\ ~Idle(t) /\ fr.op = "base_resolve" /\ fr.pc = "drain"
    /\ fr.pend # <<>>
    /\ BaseRunCallback(t, [fr EXCEPT !.pend = Tail(@)], Head(fr.pend))
    /\ UNCHANGED <<impl, navars, tvars, bvars, first>>

\* the program dies
Crash(t) ==
    /\ stack' = [u \in Threads |-> <<>>]
    /\ ops' = [ops EXCEPT ![cur[t]].res = "crashed"]
    /\ cur' = [u \in Threads |-> 0]

\* return self;  cancel() has no return statement: flowing off its end is
\* undefined behaviour, after which the caller goes on or the program dies
BaseReturn(t) ==
    LET fr == Top(t) IN
    /\ ~Idle(t) /\ fr.op = "base_resolve" /\ fr.pc = "drain"
    /\ fr.pend = <<>>
    /\ BaseQueue(fr.fut, fr.s) = <<>>
    /\ \/ PopFrame(t)
       \/ fr.s = "cancelled" /\ Crash(t)
    /\ UNCHANGED <<impl, navars, tvars, bvars, calls, first, nextId>>

\* ------------------------------------------------------------ base_future::on_done, on_fail, on_cancel, on_ready
\* if(!is_ready()) { on_done_.push_back(code); return self; }
\* if(is_done()) code();
\* on_ready(code) is on_done(handler); on_cancel(handler); on_fail(fail_handler);
BaseRegister(t) ==
    LET fr == Top(t)
        b == fr.fut
        k == fr.cb.kind
    IN
    /\ ~Idle(t) /\ fr.op = "base_register" /\ fr.pc = "check"
    /\ IF ~base_is_ready(b)
       THEN /\ on_done_' = IF k \in {"on_done", "on_ready"}
                           THEN [on_done_ EXCEPT ![b] = Append(@, fr.cb)] ELSE on_done_
            /\ on_cancel_' = IF k \in {"on_cancel", "on_ready"}
                             THEN [on_cancel_ EXCEPT ![b] = Append(@, fr.cb)] ELSE on_cancel_
            /\ on_fail_' = IF k \in {"on_fail", "on_ready"}
                           THEN [on_fail_ EXCEPT ![b] = Append(@, fr.cb)] ELSE on_fail_
            /\ stack' = [stack EXCEPT ![t] = Below(t)]
            /\ IF Len(stack[t]) = 1
               THEN /\ ops' = [ops EXCEPT ![cur[t]].res = "ok", ![cur[t]].queued = TRUE]
                    /\ cur' = [cur EXCEPT ![t] = 0]
               ELSE UNCHANGED <<ops, cur>>
            /\ UNCHANGED <<calls, nextId>>
       ELSE /\ IF BaseMatches(k, b)
               THEN BaseRunCallback(t, [fr EXCEPT !.pc = "ret"], fr.cb)
               ELSE /\ PopFrame(t)
                    /\ UNCHANGED <<calls, nextId>>
            /\ UNCHANGED <<on_done_, on_cancel_, on_fail_>>
    /\ UNCHANGED <<impl, navars, tvars, base_state_, base_ex_, first>>

\* return self;
BaseRegisterReturn(t) ==
    LET fr == Top(t) IN
    /\ ~Idle(t) /\ fr.op = "base_register" /\ fr.pc = "ret"
    /\ PopFrame(t)
    /\ UNCHANGED <<impl, navars, tvars, bvars, calls, first, nextId>>

\* ------------------------------------------------------------ base_future::needs_all
\* pending.size() read after std::move(pending) built *p: the moved-from
\* vector is empty
MovedFromSize == 0

\* na = needs_all(inputs): f = create(); p = make_shared<vector>(move(pending));
\* *count = pending.size();
CallNeedsAll(t, inputs) ==
    /\ impl = "base_future"
    /\ Idle(t)
    /\ ~Crashed
    /\ Len(ops) < MaxCalls
    /\ \A i \in 1..Len(ops) : ops[i].kind # "needs_all"
    /\ p' = inputs
    /\ count' = MovedFromSize
    /\ stack' = [stack EXCEPT ![t] = <<NeedsAllFrame("na")>>]
    /\ ops' = Append(ops, Op(t, "needs_all", "na", Len(inputs), "", 0, base_state_["na"]))
    /\ cur' = [cur EXCEPT ![t] = Len(ops) + 1]
    /\ UNCHANGED <<impl, tvars, bvars, calls, first, nextId>>

\* for(auto &it : *p) { it->on_done(ok); it->on_fail(fail_handler);
\*                      it->on_cancel(can); }  return f;
NeedsAllRegister(t) ==
    LET fr == Top(t)
        n == fr.val
        it == p[(n \div 3) + 1]
        cb == CASE n % 3 = 0 -> NaCallback("on_done", "na_ok", fr.fut)
                [] n % 3 = 1 -> NaCallback("on_fail", "na_fail", fr.fut)
                [] n % 3 = 2 -> NaCallback("on_cancel", "na_can", fr.fut)
    IN
    /\ ~Idle(t) /\ fr.op = "needs_all"
    /\ IF n < 3 * Len(p)
       THEN /\ stack' = PushOn(t, [fr EXCEPT !.val = n + 1], BaseRegisterFrame(it, cb))
            /\ UNCHANGED <<ops, cur>>
       ELSE PopFrame(t)
    /\ UNCHANGED <<impl, tvars, bvars, navars, calls, first, nextId>>

\* ok:           if(f->is_ready()) return; h();
\*   h:          if(0 == --*count && !f->is_ready()) f->done();
\* fail_handler: if(f->is_ready()) return; for(auto &it : *p) ...
\* can:          if(f->is_ready()) return; for(auto &it : *p) ...
NaHandlerCheck(t) ==
    LET fr == Top(t)
        f == fr.cb.tgt
    IN
    /\ ~Idle(t) /\ fr.op = "na_handler" /\ fr.pc = "check"
    /\ IF base_is_ready(f)
       THEN /\ stack' = [stack EXCEPT ![t] = Below(t)]
            /\ UNCHANGED count
       ELSE IF fr.cb.beh = "na_ok"
       THEN /\ count' = count - 1
            /\ stack' = IF count - 1 = 0
                        THEN PushOn(t, [fr EXCEPT !.pc = "ret"],
                                    BaseResolveFrame(f, "complete", ""))
                        ELSE [stack EXCEPT ![t] = Below(t)]
       ELSE /\ stack' = SetTop(t, [fr EXCEPT !.pc = "loop"])
            /\ UNCHANGED count
    /\ UNCHANGED <<impl, tvars, bvars, p, ops, cur, calls, first, nextId>>

\* for(auto &it : *p) { if(!it->is_ready()) it->cancel(); }
\* then f->fail(ex) in fail_handler, f->cancel() in can
NaHandlerLoop(t) ==
    LET fr == Top(t)
        f == fr.cb.tgt
        k == fr.val
    IN
    /\ ~Idle(t) /\ fr.op = "na_handler" /\ fr.pc = "loop"
    /\ stack' =
          IF k <= Len(p)
          THEN IF ~base_is_ready(p[k])
               THEN PushOn(t, [fr EXCEPT !.val = k + 1],
                           BaseResolveFrame(p[k], "cancelled", ""))
               ELSE SetTop(t, [fr EXCEPT !.val = k + 1])
          ELSE PushOn(t, [fr EXCEPT !.pc = "ret"],
                      IF fr.cb.beh = "na_fail"
                      THEN BaseResolveFrame(f, "failed", base_ex_[fr.fut].reason)
                      ELSE BaseResolveFrame(f, "cancelled", ""))
    /\ UNCHANGED <<impl, tvars, bvars, navars, ops, cur, calls, first, nextId>>

\* the lambda returns
NaHandlerReturn(t) ==
    LET fr == Top(t) IN
    /\ ~Idle(t) /\ fr.op = "na_handler" /\ fr.pc = "ret"
    /\ stack' = [stack EXCEPT ![t] = Below(t)]
    /\ UNCHANGED <<impl, tvars, bvars, navars, ops, cur, calls, first, nextId>>

\* ------------------------------------------------------------ base_future::propagate
\* src->propagate(tgt) from the top level
CallPropagate(t, src, tgt) ==
    /\ impl = "base_future"
    /\ Idle(t)
    /\ ~Crashed
    /\ Len(ops) < MaxCalls
    /\ \A i \in 1..Len(ops) : ops[i].kind # "propagate"
    /\ stack' = [stack EXCEPT ![t] = <<PropagateFrame(src, tgt)>>]
    /\ ops' = Append(ops, Op(t, "propagate", src, DefaultValue, "", 0, base_state_[src]))
    /\ cur' = [cur EXCEPT ![t] = Len(ops) + 1]
    /\ UNCHANGED <<impl, navars, tvars, bvars, calls, first, nextId>>

\* the lambda propagate registers for the outcome kind
PropagateNothing(kind) == "rp_keep"
PropagateLambda(kind) ==
    CASE kind = "on_done" -> "pg_done"
      [] kind = "on_cancel" -> "pg_cancel"
      [] kind = "on_fail" -> "pg_fail"

\* on_done([f]() { f->done(); }); on_cancel([f]() { f->cancel(); });
\* on_fail([f](exception &e) { f->fail(e); }); return f;
PropagateStep(t) ==
    LET fr == Top(t)
        f == fr.cb.tgt
        after == CASE fr.pc = "on_done" -> "on_cancel"
                   [] fr.pc = "on_cancel" -> "on_fail"
                   [] OTHER -> "ret"
    IN
    /\ ~Idle(t) /\ fr.op = "propagate"
    /\ IF fr.pc = "ret"
       THEN PopFrame(t)
       ELSE /\ stack' = PushOn(t, [fr EXCEPT !.pc = after],
                               BaseRegisterFrame(fr.fut,
                                   LamCallback(fr.pc, PropagateLambda(fr.pc), f)))
            /\ UNCHANGED <<ops, cur>>
    /\ UNCHANGED <<impl, navars, tvars, bvars, calls, first, nextId>>

\* ------------------------------------------------------------ base_future::repeat
\* times the client's check may answer false in one run
MaxIter == 2
\* the future each returns on its j-th call, and the one then() makes for it
BodyOf(j) == <<"b1", "b2", "b3">>[j]
NextOf(j) == <<"n1", "n2", "n3">>[j]
\* how the client's function each hands back its future: still pending, or
\* already done
EachModes == {"pending", "done"}

\* the invocations of the client's check and each made so far
CheckCalls == SelectSeq(calls, LAMBDA c : c.kind = "check")
EachCalls == SelectSeq(calls, LAMBDA c : c.kind = "each")
\* the call lf = repeat(check, each): val is the number of times check
\* answers false before it answers true, hs[j] how each returns its j-th future
RepeatOp == ops[CHOOSE i \in 1..Len(ops) : ops[i].kind = "repeat"]

\* one invocation of check(in): its answer, the state of in
CheckCall(t, in) ==
    [id |-> Len(CheckCalls) + 1, kind |-> "check",
     beh |-> IF Len(CheckCalls) >= RepeatOp.val THEN "true" ELSE "false",
     parent |-> 0, fut |-> in, val |-> DefaultValue, why |-> "", st |-> base_state_[in],
     t |-> t, op |-> cur[t], queued |-> 0]
\* one invocation of each(in): the future it returns, the state of in
EachCall(t, in, j) ==
    [id |-> j, kind |-> "each", beh |-> RepeatOp.hs[j], parent |-> 0, fut |-> BodyOf(j),
     val |-> DefaultValue, why |-> "", st |-> base_state_[in], t |-> t, op |-> cur[t],
     queued |-> 0]

\* lf = repeat(check, each) from the top level: auto f = create();
CallRepeat(t, k, modes) ==
    /\ impl = "base_future"
    /\ Idle(t)
    /\ ~Crashed
    /\ Len(ops) < MaxCalls
    /\ \A i \in 1..Len(ops) : ops[i].kind # "repeat"
    /\ stack' = [stack EXCEPT ![t] = <<RepeatFrame("lf")>>]
    /\ ops' = Append(ops, [Op(t, "repeat", "lf", k, "", 0, base_state_["lf"])
                             EXCEPT !.hs = modes])
    /\ cur' = [cur EXCEPT ![t] = Len(ops) + 1]
    /\ UNCHANGED <<impl, navars, tvars, bvars, calls, first, nextId>>

\* f->on_ready([f](ptr in) { }); auto next = create(); next->done();
\* code = make_shared<function>([f, check, code, each] ...): the closure
\* copies the shared_ptr code inside code's own initializer, before it is
\* constructed: undefined behaviour, after which repeat goes on or the
\* program dies;
\* next = (*code)(next); f->on_ready([code](ptr) { ... }); return f;
RepeatStep(t) ==
    LET fr == Top(t) IN
    /\ ~Idle(t) /\ fr.op = "repeat"
    /\ CASE fr.pc = "keep" ->
              /\ stack' = PushOn(t, [fr EXCEPT !.pc = "next"],
                       BaseRegisterFrame(fr.fut, LamCallback("on_ready", "rp_keep", fr.fut)))
              /\ UNCHANGED <<ops, cur>>
         [] fr.pc = "next" ->
              /\ stack' = PushOn(t, [fr EXCEPT !.pc = "code"],
                                 BaseResolveFrame("nx", "complete", ""))
              /\ UNCHANGED <<ops, cur>>
         [] fr.pc = "code" ->
              \/ /\ stack' = PushOn(t, [fr EXCEPT !.pc = "hold"], RecurseFrame("nx", 1))
                 /\ UNCHANGED <<ops, cur>>
              \/ Crash(t)
         [] fr.pc = "hold" ->
              /\ stack' = PushOn(t, [fr EXCEPT !.pc = "ret"],
                       BaseRegisterFrame(fr.fut, LamCallback("on_ready", "rp_hold", fr.fut)))
              /\ UNCHANGED <<ops, cur>>
         [] fr.pc = "ret" -> PopFrame(t)
    /\ UNCHANGED <<impl, navars, tvars, bvars, calls, first, nextId>>

\* if(f->is_ready()) return f;   the test recurse makes first
RecurseStopsNever(f) == FALSE
RecurseStops(f) == base_is_ready(f)

\* every lambda completes the future it captured
LambdaCallDone(b, cb) == BaseResolveFrame(cb.tgt, "complete", "")

\* recurse(in): if(f->is_ready()) return f;
\*              bool status = check(in); if(status) return f->done();
RecurseStart(t) ==
    LET fr == Top(t)
        c == CheckCall(t, fr.fut)
    IN
    /\ ~Idle(t) /\ fr.op = "recurse" /\ fr.pc = "start"
    /\ IF RecurseStops("lf")
       THEN /\ stack' = SetTop(t, [fr EXCEPT !.pc = "ret", !.inner = "lf"])
            /\ UNCHANGED calls
       ELSE /\ calls' = Append(calls, c)
            /\ stack' = IF c.beh = "true"
                        THEN PushOn(t, [fr EXCEPT !.pc = "ret", !.inner = "lf"],
                                    BaseResolveFrame("lf", "complete", ""))
                        ELSE SetTop(t, [fr EXCEPT !.pc = "each"])
    /\ UNCHANGED <<impl, navars, tvars, bvars, ops, cur, first, nextId>>

\* in = each(in);  (a future each hands back done was completed by each)
RecurseEach(t) ==
    LET fr == Top(t)
        j == fr.val
        after == [fr EXCEPT !.pc = "then_done"]
    IN
    /\ ~Idle(t) /\ fr.op = "recurse" /\ fr.pc = "each"
    /\ calls' = Append(calls, EachCall(t, fr.fut, j))
    /\ stack' = IF RepeatOp.hs[j] = "done"
                THEN PushOn(t, after, BaseResolveFrame(BodyOf(j), "complete", ""))
                ELSE SetTop(t, after)
    /\ UNCHANGED <<impl, navars, tvars, bvars, ops, cur, first, nextId>>

\* return in->then(lambda)        then: auto f = create(); on_done(...);
\*                                      on_fail(...); on_cancel(...); return f;
\*          ->on_fail([f](exception &ex) { f->fail(ex); })
\*          ->on_cancel([f]() { f->fail("cancelled"); });
RecurseWire(t) ==
    LET fr == Top(t)
        in == BodyOf(fr.val)
        n == NextOf(fr.val)
    IN
    /\ ~Idle(t) /\ fr.op = "recurse"
    /\ fr.pc \in {"then_done", "then_fail", "then_cancel", "on_fail", "on_cancel"}
    /\ stack' =
          CASE fr.pc = "then_done" ->
                 PushOn(t, [fr EXCEPT !.pc = "then_fail"],
                        BaseRegisterFrame(in, LamCallback("on_done", "th_done", n)))
            [] fr.pc = "then_fail" ->
                 PushOn(t, [fr EXCEPT !.pc = "then_cancel"],
                        BaseRegisterFrame(in, LamCallback("on_fail", "th_fail", n)))
            [] fr.pc = "then_cancel" ->
                 PushOn(t, [fr EXCEPT !.pc = "on_fail"],
                        BaseRegisterFrame(in, LamCallback("on_cancel", "th_cancel", n)))
            [] fr.pc = "on_fail" ->
                 PushOn(t, [fr EXCEPT !.pc = "on_cancel"],
                        BaseRegisterFrame(n, LamCallback("on_fail", "rp_fail", "lf")))
            [] fr.pc = "on_cancel" ->
                 PushOn(t, [fr EXCEPT !.pc = "ret", !.inner = n],
                        BaseRegisterFrame(n, LamCallback("on_cancel", "rp_cancel", "lf")))
    /\ UNCHANGED <<impl, navars, tvars, bvars, ops, cur, calls, first, nextId>>

\* recurse returns a future to its caller (code, or the lambda given to then)
RecurseReturn(t) ==
    LET fr == Top(t)
        stk == stack[t]
        n == Len(stk)
    IN
    /\ ~Idle(t) /\ fr.op = "recurse" /\ fr.pc = "ret"
    /\ stack' = [stack EXCEPT ![t] =
                    Append(SubSeq(stk, 1, n - 2), [stk[n - 1] EXCEPT !.inner = fr.inner])]
    /\ UNCHANGED <<impl, navars, tvars, bvars, ops, cur, calls, first, nextId>>

\* ------------------------------------------------------------ base_future: the lambdas
\* recurse is a local variable of the call (*code)(next) that the lambda
\* given to then captures by reference ([f, in, &recurse]): the reference
\* dangles once that call has returned
Dangling(t) == \A d \in 1..Len(stack[t]) : stack[t][d].op # "repeat"

\* the call a lambda makes on the future it captured, run for the future b
LambdaCall(b, cb) ==
    CASE cb.beh = "pg_done" -> BaseResolveFrame(cb.tgt, "complete", "")
      [] cb.beh \in {"pg_cancel", "th_cancel"} -> BaseResolveFrame(cb.tgt, "cancelled", "")
      [] cb.beh \in {"pg_fail", "th_fail", "rp_fail"} -> BaseFailFrame(cb.tgt, base_ex_[b])
      [] cb.beh = "rp_cancel" -> BaseResolveFrame(cb.tgt, "failed", "cancelled")

\* a lambda starts.  then's lambdas first test if(f->is_ready()) return;
\* then's on_done lambda calls ok(), which is recurse(in) through the
\* captured reference: when it dangles the call is undefined behaviour,
\* after which recurse runs as if it were alive or the program dies
LambdaStart(t) ==
    LET fr == Top(t)
        cb == fr.cb
    IN
    /\ ~Idle(t) /\ fr.op = "lambda" /\ fr.pc = "start"
    /\ IF \/ cb.beh \in {"rp_keep", "rp_hold"}
          \/ cb.beh \in {"th_done", "th_fail", "th_cancel"} /\ base_is_ready(cb.tgt)
       THEN /\ stack' = [stack EXCEPT ![t] = Below(t)]
            /\ UNCHANGED <<ops, cur>>
       ELSE IF cb.beh = "th_done"
       THEN \/ /\ stack' = PushOn(t, [fr EXCEPT !.pc = "propagate"],
                                   RecurseFrame(fr.fut, Len(EachCalls) + 1))
               /\ UNCHANGED <<ops, cur>>
            \/ Dangling(t) /\ Crash(t)
       ELSE /\ stack' = PushOn(t, [fr EXCEPT !.pc = "ret"], LambdaCall(fr.fut, cb))
            /\ UNCHANGED <<ops, cur>>
    /\ UNCHANGED <<impl, navars, tvars, bvars, calls, first, nextId>>

\* s->propagate(f); in then's on_done lambda, and the return of a lambda
LambdaReturn(t) ==
    LET fr == Top(t) IN
    /\ ~Idle(t) /\ fr.op = "lambda" /\ fr.pc \in {"propagate", "ret"}
    /\ stack' = IF fr.pc = "propagate"
                THEN PushOn(t, [fr EXCEPT !.pc = "ret"], PropagateFrame(fr.inner, fr.cb.tgt))
                ELSE [stack EXCEPT ![t] = Below(t)]
    /\ UNCHANGED <<impl, navars, tvars, bvars, ops, cur, calls, first, nextId>>

\* ------------------------------------------------------------ specifications
Init ==
    /\ impl \in {"future", "base_future"}
    /\ state_ = [f \in Futs |-> "pending"]
    /\ value_ = [f \in Futs |-> DefaultValue]
    /\ failure_reason_ = [f \in Futs |-> ""]
    /\ ex_ = [f \in Futs |-> NoEx]
    /\ tasks_ = [f \in Futs |-> <<>>]
    /\ mutex_ = [f \in Futs |-> "free"]
    /\ base_state_ = [b \in BaseFuts |-> "pending"]
    /\ base_ex_ = [b \in BaseFuts |-> NoException]
    /\ on_done_ = [b \in BaseFuts |-> <<>>]
    /\ on_fail_ = [b \in BaseFuts |-> <<>>]
    /\ on_cancel_ = [b \in BaseFuts |-> <<>>]
    /\ count = 0
    /\ p = <<>>
    /\ stack = [t \in Threads |-> <<>>]
    /\ cur = [t \in Threads |-> 0]
    /\ ops = <<>>
    /\ calls = <<>>
    /\ first = [f \in Futs |-> NoSnapshot]
    /\ nextId = 1

\* one step of thread t inside cps::future<T>
Step(t) ==
    \/ ApplyLock(t)
    \/ ApplyState(t)
    \/ ApplyDrain(t)
    \/ ApplyReturn(t)
    \/ RegisterLock(t)
    \/ RegisterCall(t)
    \/ RegisterReturn(t)

\* one step of thread t inside cps::base_future
BaseStep(t) ==
    \/ BaseMark(t)
    \/ BaseCopy(t)
    \/ BaseDrain(t)
    \/ BaseReturn(t)
    \/ BaseRegister(t)
    \/ BaseRegisterReturn(t)

\* a single-threaded client of one future, of either class
Next ==
    \/ \E k \in ResolveKinds : CallResolve("t1", "f", k, MaxCalls)
    \/ \E k \in CbKinds, b \in CbBehs : CallRegister("t1", "f", k, b, MaxCalls)
    \/ Step("t1")
    \/ \E k \in ResolveKinds : CallBaseResolve("t1", "b", k)
    \/ \E k \in CbKinds, b \in CbBehs : CallBaseRegister("t1", "b", k, b)
    \/ BaseStep("t1")

Spec == Init /\ [][Next]_vars

\* a client whose two threads share one cps::future<T>; the threads are
\* interchangeable, so a call starts on t2 only while t1 is inside a call
\* the callbacks such a client registers
CallbacksMT == (CbKinds \X {"rec"}) \cup {<<"on_ready", "throw">>}

InitMT == Init /\ impl = "future"

ClientMT(max) ==
    \E t \in Threads :
        /\ (t = "t2" => ~Idle("t1"))
        /\ \/ \E k \in ResolveKinds : CallResolve(t, "f", k, max)
           \/ \E c \in CallbacksMT : CallRegister(t, "f", c[1], c[2], max)

NextMT ==
    \/ ClientMT(MaxCallsMT)
    \/ \E t \in Threads : Step(t)

SpecMT == InitMT /\ [][NextMT]_vars

NextRace ==
    \/ ClientMT(MaxCallsRace)
    \/ \E t \in Threads : Step(t)

SpecRace == InitMT /\ [][NextRace]_vars

\* a client whose two threads resolve one cps::future<T> and read it with
\* value() and failure_reason(), with an on_done callback registered
ReadStep(t) ==
    \/ ValueSwitch(t)
    \/ FailureReasonReturn(t)

ClientRead ==
    \E t \in Threads :
        /\ (t = "t2" => ~Idle("t1"))
        /\ \/ \E k \in ResolveKinds : CallResolve(t, "f", k, MaxCallsRead)
           \/ \E op \in {"value", "failure_reason"} : CallRead(t, "f", op, MaxCallsRead)
           \/ CallRegister(t, "f", "on_done", "rec", MaxCallsRead)

NextRead ==
    \/ ClientRead
    \/ \E t \in Threads : Step(t)
    \/ \E t \in Threads : ReadStep(t)

SpecRead == InitMT /\ [][NextRead]_vars

\* one step of thread t inside needs_all or one of its lambdas
NeedsAllStep(t) ==
    \/ NeedsAllRegister(t)
    \/ NaHandlerCheck(t)
    \/ NaHandlerLoop(t)
    \/ NaHandlerReturn(t)

\* a single-threaded client that calls na = needs_all(...) on no input, on
\* i1, or on i1 and i2, and resolves the inputs
InitAll == Init /\ impl = "base_future"

NextAll ==
    \/ \E inputs \in {<<>>, <<"i1">>, <<"i1", "i2">>} : CallNeedsAll("t1", inputs)
    \/ \E b \in {"i1", "i2"}, k \in ResolveKinds : CallBaseResolve("t1", b, k)
    \/ BaseStep("t1")
    \/ NeedsAllStep("t1")

SpecAll == InitAll /\ [][NextAll]_vars

\* one step of thread t inside a lambda of propagate, then(seq) or repeat
LambdaStep(t) ==
    \/ LambdaStart(t)
    \/ LambdaReturn(t)

\* a single-threaded client that calls b->propagate(tg), before or after it
\* resolves b, with callbacks registered on tg
NextProp ==
    \/ CallPropagate("t1", "b", "tg")
    \/ \E k \in ResolveKinds : CallBaseResolve("t1", "b", k)
    \/ \E k \in CbKinds : CallBaseRegister("t1", "tg", k, "rec")
    \/ BaseStep("t1")
    \/ PropagateStep("t1")
    \/ LambdaStep("t1")

SpecProp == InitAll /\ [][NextProp]_vars

\* one step of thread t inside repeat or recurse
RepeatSteps(t) ==
    \/ RepeatStep(t)
    \/ RecurseStart(t)
    \/ RecurseEach(t)
    \/ RecurseWire(t)
    \/ RecurseReturn(t)

\* the client holds the future each returned on its j-th call, and lf
HasBody(j) == \E c \in 1..Len(calls) : calls[c].kind = "each" /\ calls[c].id = j
HasLoop == \E i \in 1..Len(ops) : ops[i].kind = "repeat" /\ ops[i].res = "ok"

\* a single-threaded client that calls lf = repeat(check, each), resolves the
\* futures each returned, and cancels lf
NextRepeat ==
    \/ \E k \in 0..MaxIter : \E modes \in [1..k -> EachModes] : CallRepeat("t1", k, modes)
    \/ \E j \in 1..MaxIter, k \in ResolveKinds :
          HasBody(j) /\ CallBaseResolve("t1", BodyOf(j), k)
    \/ HasLoop /\ CallBaseResolve("t1", "lf", "cancel")
    \/ BaseStep("t1")
    \/ PropagateStep("t1")
    \/ LambdaStep("t1")
    \/ RepeatSteps("t1")

SpecRepeat == InitAll /\ [][NextRepeat]_vars

\* one step of thread t inside the lambda of then()
ThenStep(t) ==
    \/ ThenStart(t)
    \/ ThenWire(t)
    \/ ThenCatch(t)
    \/ ThenReturn(t)

\* a single-threaded client that chains seq = f->then(ok, handlers...), where
\* ok returns g and the handlers return h, and resolves f, g, h and seq.
\* ThenArgs: what the client passes to then(): what ok does, and the handlers
ThenArgs ==
    {<<"ret", <<>>>>,
     <<"throw", <<>>>>,
     <<"ret", <<Handler("logic_error", "ret")>>>>,
     <<"ret", <<Handler("logic_error", "ret"), Handler("string", "ret"),
                Handler("runtime_error", "ret")>>>>,
     <<"ret", <<Handler("runtime_error", "throw"), Handler("string", "ret")>>>>}

NextThen ==
    \/ \E a \in ThenArgs : CallThen("t1", "f", a[1], a[2], MaxCallsThen)
    \/ \E x \in Futs, k \in ResolveKinds :
          /\ (x = "seq" => HasSeq)
          /\ CallResolve("t1", x, k, MaxCallsThen)
    \/ Step("t1")
    \/ ThenStep("t1")

SpecThen == InitMT /\ [][NextThen]_vars

\* a client with two threads: seq = f->then(ok) or f->then(ok, handler), f is
\* resolved, and seq is cancelled, possibly while f is being resolved
ThenArgsMT ==
    {<<"ret", <<>>>>,
     <<"ret", <<Handler("string", "ret")>>>>}

ClientThenMT ==
    \/ \E a \in ThenArgsMT : CallThen("t1", "f", a[1], a[2], MaxCallsThenMT)
    \/ \E t \in Threads :
          /\ (t = "t2" => ~Idle("t1"))
          /\ \/ \E k \in ResolveKinds : CallResolve(t, "f", k, MaxCallsThenMT)
             \/ HasSeq /\ CallResolve(t, "seq", "cancel", MaxCallsThenMT)

NextThenMT ==
    \/ ClientThenMT
    \/ \E t \in Threads : Step(t)
    \/ \E t \in Threads : ThenStep(t)

SpecThenMT == InitMT /\ [][NextThenMT]_vars

\* ------------------------------------------------------------ properties
OpIdx == 1..Len(ops)
CallIdx == 1..Len(calls)
IsResolve(o) == o.kind \in ResolveKinds
IsRegister(o) == o.kind \in CbKinds
\* the invocations of the client's code id
CallsOf(id) == {j \in CallIdx : calls[j].id = id}
\* is a callback registered as kind meant for the state st?
MatchState(kind, st) ==
    \/ kind = "on_ready" /\ st # "pending"
    \/ kind = "on_done" /\ st \in {"done", "complete"}
    \/ kind = "on_fail" /\ st = "failed"
    \/ kind = "on_cancel" /\ st = "cancelled"
\* the state of the future of either class
StateOf(x) == IF x \in Futs THEN state_[x] ELSE base_state_[x]
\* the frames of calls on future x
FramesOf(x) ==
    {fr \in UNION {{stack[t][d] : d \in 1..Len(stack[t])} : t \in Threads} : fr.fut = x}
\* the callbacks held for later by future x, in its queues and in the lists
\* being drained
Held(x) ==
    (IF x \in Futs
     THEN {tasks_[x][k] : k \in 1..Len(tasks_[x])}
     ELSE {on_done_[x][k] : k \in 1..Len(on_done_[x])}
          \cup {on_fail_[x][k] : k \in 1..Len(on_fail_[x])}
          \cup {on_cancel_[x][k] : k \in 1..Len(on_cancel_[x])})
    \cup UNION {{fr.pend[k] : k \in 1..Len(fr.pend)} : fr \in FramesOf(x)}
\* two top-level calls that overlap in time
Overlap(i, j) == i # j /\ (IF i < j THEN ops[j].with = i ELSE ops[i].with = j)

\* C1: on a cps::future<T>, a done, fail or cancel call that finds the
\* future already resolved ends with the double-resolve error, makes no
\* transition and invokes no callback; and the state, the value and the
\* failure reason stay what the first resolution stored.
C1_SecondResolveRejected ==
    impl = "future" =>
        /\ \A i \in OpIdx :
              (IsResolve(ops[i]) /\ ops[i].pre # "pending") =>
                  /\ ~ops[i].won
                  /\ ops[i].res \in {"run", "threw"}
                  /\ (ops[i].res = "threw" => ops[i].err = DoubleResolve)
                  /\ \A j \in CallIdx : calls[j].op # i
        /\ \A f \in Futs : first[f].state # "pending" => Snapshot(f) = first[f]

\* a fail() rejected on a future that done() resolved, after a callback ran
C1_Witness ==
    \E i \in OpIdx :
        /\ impl = "future"
        /\ ops[i].kind = "fail" /\ ops[i].pre = "done"
        /\ ops[i].res = "threw" /\ ops[i].err = DoubleResolve
        /\ calls # <<>>
        /\ state_["f"] = "done" /\ value_["f"] # DefaultValue

\* C2: a cps::base_future that has left pending never changes state again.
C2_StateChangesOnce ==
    [][\A b \in BaseFuts : base_state_[b] # "pending" => base_state_'[b] = base_state_[b]]_vars

\* C3: every future, of either class, is in exactly one of the states
\* pending, done, failed, cancelled, and is_ready() is !is_pending().
C3_ExactlyOneState ==
    /\ \A f \in Futs :
          /\ Cardinality({n \in 1..4 :
                <<is_pending(f), is_done(f), is_failed(f), is_cancelled(f)>>[n]}) = 1
          /\ is_ready(f) = ~is_pending(f)
    /\ \A b \in BaseFuts :
          /\ Cardinality({n \in 1..4 :
                <<base_is_pending(b), base_is_done(b), base_is_failed(b),
                  base_is_cancelled(b)>>[n]}) = 1
          /\ base_is_ready(b) = ~base_is_pending(b)

\* a future that failed, with a second resolution attempted on it
C3_Witness ==
    /\ impl = "future"
    /\ is_failed("f")
    /\ \E i \in OpIdx : IsResolve(ops[i]) /\ ops[i].pre = "failed" /\ ops[i].res = "threw"

\* C6: a callback registered on a future that is already resolved is invoked
\* inside the registration call when it is for the state the future is in
\* (on_done with the value given to done, on_fail with the stored reason);
\* a callback for another state is never invoked; neither is ever queued.
C6_ImmediateWhenResolved ==
    \A i \in OpIdx :
        (IsRegister(ops[i]) /\ ops[i].pre # "pending") =>
            LET id == ops[i].id
                match == MatchState(ops[i].kind, ops[i].pre)
            IN
            /\ Cardinality(CallsOf(id)) <= (IF match THEN 1 ELSE 0)
            /\ (match /\ ops[i].res # "run") => CallsOf(id) # {}
            /\ \A j \in CallsOf(id) :
                  /\ calls[j].op = i
                  /\ calls[j].st = ops[i].pre
                  /\ (impl = "future" /\ ops[i].kind = "on_done")
                        => calls[j].val = first[ops[i].fut].value
                  /\ (impl = "future" /\ ops[i].kind = "on_fail")
                        => calls[j].why = first[ops[i].fut].reason
            /\ \A cb \in Held(ops[i].fut) : cb.id # id

\* on_done registered after done(v) was called with v, and an on_fail
\* registered on the same future returned without being called
C6_Witness ==
    \E i, k \in OpIdx :
        /\ impl = "future"
        /\ ops[i].kind = "on_done" /\ ops[i].pre = "done" /\ ops[i].res = "ok"
        /\ \E j \in CallsOf(ops[i].id) : calls[j].val = ValueOf(1)
        /\ ops[k].kind = "on_fail" /\ ops[k].pre = "done" /\ ops[k].res = "ok"
        /\ CallsOf(ops[k].id) = {}

\* C8: a callback registered by a callback that is running in a drain (or
\* in an immediate call) is invoked at once, inside that registration, before
\* any other callback runs; it is invoked once and never put in a queue or
\* in the list being drained.
C8_RegisteredInDrainRunsAtOnce ==
    /\ \A x \in Futs \cup BaseFuts : \A cb \in Held(x) : cb.parent = 0
    /\ \A j \in CallIdx :
          calls[j].parent # 0 =>
              /\ j > 1
              /\ calls[j - 1].id = calls[j].parent
              /\ calls[j - 1].op = calls[j].op
              /\ Cardinality(CallsOf(calls[j].id)) = 1
    /\ \A j \in CallIdx :
          (calls[j].beh = "reg" /\ (j < Len(calls) \/ ops[calls[j].op].res # "run")) =>
              /\ j < Len(calls)
              /\ calls[j + 1].parent = calls[j].id

\* in the drain of done(): a callback registers another one, which runs
\* before the callback queued behind its parent
C8_Witness ==
    \E j \in CallIdx :
        /\ impl = "future"
        /\ j + 2 <= Len(calls)
        /\ calls[j].beh = "reg" /\ ops[calls[j].op].kind = "done"
        /\ calls[j + 1].parent = calls[j].id
        /\ calls[j + 2].parent = 0 /\ calls[j + 2].op = calls[j].op

\* the callbacks queued on the future of call i before call i began
\* that are for the outcome call i asks for, in registration order
Expected(i) ==
    SelectSeq(SubSeq(ops, 1, i - 1),
              LAMBDA o : /\ IsRegister(o) /\ o.queued /\ o.fut = ops[i].fut
                         /\ MatchState(o.kind, StateFor(ops[i].kind)))
\* the invocations call i made from its drain
Drained(i) == SelectSeq(calls, LAMBDA c : c.op = i /\ c.parent = 0)

\* C7: when done, fail or cancel resolves a pending future, the callbacks
\* queued for that outcome are invoked in registration order, each once, and
\* the live queue is empty when each of them runs.
C7_DrainInOrder ==
    \A i \in OpIdx :
        (IsResolve(ops[i]) /\ ops[i].pre = "pending" /\ ops[i].res # "run") =>
            /\ Len(Drained(i)) = Len(Expected(i))
            /\ \A k \in 1..Len(Drained(i)) :
                  /\ k <= Len(Expected(i))
                  /\ Drained(i)[k].id = Expected(i)[k].id
                  /\ Drained(i)[k].queued = 0

\* C9: an exception thrown by a callback in a drain does not end the drain:
\* the call that drains does not end with an exception, and every callback
\* queued for the outcome has been invoked when it ends.
C9_DrainSurvivesThrow ==
    \A i \in OpIdx :
        (IsResolve(ops[i]) /\ ops[i].pre = "pending" /\ ops[i].res # "run") =>
            /\ ops[i].res # "threw"
            /\ \A k \in 1..Len(Expected(i)) : CallsOf(Expected(i)[k].id) # {}

\* C4: of the done/fail/cancel calls that race on a pending cps::future<T>,
\* one makes the transition and the others end with the double-resolve
\* error; the state and the payload are the winner's; and every callback that
\* was queued for that outcome is invoked exactly once.
C4_OneWinner ==
    \A i, j \in OpIdx :
        (/\ IsResolve(ops[i]) /\ IsResolve(ops[j]) /\ Overlap(i, j)
         /\ ops[i].pre = "pending" /\ ops[j].pre = "pending"
         /\ ops[i].res # "run" /\ ops[j].res # "run"
         /\ ops[i].won) =>
            LET f == ops[i].fut IN
            /\ ~ops[j].won
            /\ ops[j].res = "threw" /\ ops[j].err = DoubleResolve
            /\ state_[f] = StateFor(ops[i].kind)
            /\ ops[i].kind = "done" => value_[f] = ops[i].val
            /\ ops[i].kind = "fail" => failure_reason_[f] = ops[i].why
            /\ \A k \in OpIdx :
                  (IsRegister(ops[k]) /\ ops[k].queued /\ ops[k].res # "run") =>
                      Cardinality(CallsOf(ops[k].id)) =
                          (IF MatchState(ops[k].kind, state_[f]) THEN 1 ELSE 0)

\* C5: a callback registered by one thread while another thread resolves
\* the future is, once both calls have ended, invoked exactly once when it
\* is for the outcome, and is no longer in the queue.
C5_RegisterDuringResolve ==
    \A i, j \in OpIdx :
        (/\ IsResolve(ops[i]) /\ ops[i].won /\ IsRegister(ops[j]) /\ Overlap(i, j)
         /\ ops[i].res # "run" /\ ops[j].res # "run") =>
            /\ Cardinality(CallsOf(ops[j].id)) =
                  (IF MatchState(ops[j].kind, state_[ops[i].fut]) THEN 1 ELSE 0)
            /\ \A cb \in Held(ops[i].fut) : cb.id # ops[j].id


\* the invocations of the function ok given to then()
OkCalls == SelectSeq(calls, LAMBDA c : c.kind = "ok")
\* has the client itself called done, fail or cancel on x?
ClientResolved(x) == \E i \in OpIdx : IsResolve(ops[i]) /\ ops[i].fut = x
\* the calls x->done(v) of the client that resolved x and have returned
DoneCalls(x) ==
    {i \in OpIdx : /\ ops[i].kind = "done" /\ ops[i].fut = x
                   /\ ops[i].won /\ ops[i].res # "run"}

\* C10: with seq = f->then(ok), ok returning g that is pending then, and a
\* client that resolves seq only through f and g: once then() and f->done(v)
\* have both returned, ok has been invoked exactly once, with v; seq is
\* pending as long as g is; seq is done with value x once g->done(x) has
\* returned; and seq is never done unless g is done with the same value.
C10_ThenSuccessPath ==
    ~ClientResolved("seq") =>
        /\ \A i \in DoneCalls("f") :
              HasSeq => /\ Len(OkCalls) = 1
                        /\ OkCalls[1].val = ops[i].val
        /\ Len(OkCalls) <= 1
        /\ \A k \in 1..Len(OkCalls) :
              (OkCalls[k].beh = "ret" /\ OkCalls[k].st = "pending") =>
                  /\ is_pending("g") => is_pending("seq")
                  /\ \A i \in DoneCalls("g") :
                        /\ is_done("seq")
                        /\ value("seq").ok
                        /\ value("seq").v = ops[i].val
                  /\ is_done("seq") => is_done("g")

\* after seq = f->then(ok): f->done(12) invoked ok with 12, then g->done(13)
\* made seq done with 13
C10_Witness ==
    /\ ~ClientResolved("seq")
    /\ Len(OkCalls) = 1
    /\ OkCalls[1].st = "pending" /\ OkCalls[1].val = ValueOf(2)
    /\ DoneCalls("f") # {} /\ DoneCalls("g") # {}
    /\ Len(ops) = 3
    /\ is_done("seq") /\ value("seq").ok /\ value("seq").v = ValueOf(3)

\* the calls of the client that resolved x as kind and have returned
WonCalls(x, kind) ==
    {i \in OpIdx : /\ ops[i].kind = kind /\ ops[i].fut = x
                   /\ ops[i].won /\ ops[i].res # "run"}
\* the invocations of the failure handlers given to then()
HandlerCalls == SelectSeq(calls, LAMBDA c : c.kind = "handler")
\* the failure handlers the client gave to then()
HandlersGiven == ops[CHOOSE i \in OpIdx : ops[i].kind = "then"].hs

\* C11: when the function ok given to then() throws as the source is done,
\* the derived future seq is failed with the exception ok threw (same error,
\* its what() as the reason) once the call that invoked ok has ended, and
\* that call (the source's done(), or then() on a source already done)
\* ended without an exception.
C11_OkThrowsFailsDerived ==
    \A j \in CallIdx :
        (/\ calls[j].kind = "ok" /\ calls[j].beh = "throw"
         /\ ops[calls[j].op].res # "run") =>
            /\ ops[calls[j].op].res = "ok"
            /\ is_failed("seq")
            /\ ex_["seq"] = CallbackError
            /\ failure_reason("seq").ok
            /\ failure_reason("seq").r = CallbackError.what

\* f->done(v) returned normally after ok threw: seq is failed, f is done
C11_Witness ==
    \E j \in CallIdx :
        /\ calls[j].kind = "ok" /\ calls[j].beh = "throw"
        /\ ops[calls[j].op].kind = "done" /\ ops[calls[j].op].res = "ok"
        /\ is_done("f") /\ is_failed("seq")

\* C12: with seq = f->then(ok, handlers...) and a client that resolves seq
\* only through f: once then() and f->fail(m) have both returned and no
\* handler accepts the error, neither ok nor a handler has been invoked, seq
\* is failed, and its failure reason and exception are those of f.
C12_FailureNoHandler ==
    (~ClientResolved("seq") /\ HasSeq) =>
        \A i \in WonCalls("f", "fail") :
            (\A k \in 1..Len(HandlersGiven) : ~HandlerAccepts(HandlersGiven[k], ex_["f"])) =>
                /\ OkCalls = <<>> /\ HandlerCalls = <<>>
                /\ is_failed("seq")
                /\ failure_reason("seq") = failure_reason("f")
                /\ failure_reason("seq").r = ops[i].why
                /\ ex_["seq"] = ex_["f"]

\* then() was given one handler, which does not accept the error of
\* f->fail("r2"): seq is failed with "r2"
C12_Witness ==
    /\ ~ClientResolved("seq") /\ HasSeq
    /\ Len(HandlersGiven) = 1
    /\ WonCalls("f", "fail") # {}
    /\ HandlerCalls = <<>>
    /\ is_failed("seq") /\ failure_reason("seq").r = ReasonOf(2)

\* the future an invocation of ok or of a failure handler returned
InnerOf(c) == IF c.kind = "ok" THEN "g" ELSE "h"
\* the calls done, fail, cancel of the client on x that resolved it and returned
ResolvingCalls(x) == {i \in OpIdx : IsResolve(ops[i]) /\ ops[i].fut = x
                                    /\ ops[i].won /\ ops[i].res # "run"}

\* C13: with seq = f->then(ok, handlers...) and a client that resolves seq
\* only through f and h: once then() and f->fail(m) have both returned and
\* some handler accepts the error, exactly one handler has been invoked, with
\* m: the first in the order given that accepts the error; ok has not been
\* invoked; and when that handler returned h, pending then, seq is pending
\* as long as h is and has the outcome of h (state, value, reason, error)
\* once the call that resolved h has returned.
C13_FirstAcceptingHandler ==
    (~ClientResolved("seq") /\ HasSeq) =>
        \A i \in WonCalls("f", "fail") :
            (\E k \in 1..Len(HandlersGiven) : HandlerAccepts(HandlersGiven[k], ex_["f"])) =>
                /\ OkCalls = <<>>
                /\ Len(HandlerCalls) = 1
                /\ LET c == HandlerCalls[1] IN
                   /\ HandlerAccepts(HandlersGiven[c.id], ex_["f"])
                   /\ \A j \in 1..(c.id - 1) : ~HandlerAccepts(HandlersGiven[j], ex_["f"])
                   /\ c.why = ops[i].why
                   /\ (c.beh = "ret" /\ c.st = "pending") =>
                         /\ is_pending("h") => is_pending("seq")
                         /\ is_ready("seq") => state_["seq"] = state_["h"]
                         /\ \A r \in ResolvingCalls("h") :
                               /\ state_["seq"] = StateFor(ops[r].kind)
                               /\ value("seq") = value("h")
                               /\ failure_reason("seq") = failure_reason("h")
                               /\ ex_["seq"] = ex_["h"]
                               /\ ops[r].kind = "done" => value("seq").v = ops[r].val
                               /\ ops[r].kind = "fail" => failure_reason("seq").r = ops[r].why

\* then(ok, for logic_error, for string, for runtime_error); f->fail("r2")
\* invoked the second handler only; h->done(13) made seq done with 13
C13_Witness ==
    /\ ~ClientResolved("seq") /\ HasSeq
    /\ Len(HandlersGiven) = 3
    /\ WonCalls("f", "fail") # {}
    /\ Len(HandlerCalls) = 1 /\ HandlerCalls[1].id = 2 /\ HandlerCalls[1].st = "pending"
    /\ WonCalls("h", "done") # {}
    /\ is_done("seq") /\ value("seq").v = ValueOf(3)

\* C15: once ok, or a failure handler, has returned an inner future that is
\* still pending when the client calls seq->cancel() on the pending derived
\* future, seq and the inner future are both cancelled when that call ends.
C15_CancelForwardsToInner ==
    \A c \in OpIdx :
        (/\ ops[c].kind = "cancel" /\ ops[c].fut = "seq"
         /\ ops[c].pre = "pending" /\ ops[c].res # "run") =>
            \A j \in CallIdx :
                (/\ calls[j].kind \in {"ok", "handler"} /\ calls[j].beh = "ret"
                 /\ calls[j].st = "pending" /\ calls[j].op < c
                 /\ \A i \in 1..(c - 1) : ~(IsResolve(ops[i]) /\ ops[i].fut = InnerOf(calls[j]))) =>
                    /\ is_cancelled("seq")
                    /\ is_cancelled(InnerOf(calls[j]))
                    /\ first[InnerOf(calls[j])].state = "cancelled"

\* f->done(12) had ok return g; then seq->cancel(): seq and g are cancelled
C15_Witness ==
    \E c \in OpIdx :
        /\ ops[c].kind = "cancel" /\ ops[c].fut = "seq" /\ ops[c].pre = "pending"
        /\ ops[c].res # "run"
        /\ Len(OkCalls) = 1 /\ OkCalls[1].st = "pending" /\ OkCalls[1].op < c
        /\ \A i \in OpIdx : IsResolve(ops[i]) => ops[i].fut \in {"f", "seq"}
        /\ is_done("f") /\ is_cancelled("seq") /\ is_cancelled("g")

\* the frames of thread t
FramesOn(t) == {stack[t][d] : d \in 1..Len(stack[t])}

\* C14: once seq->cancel() has cancelled the derived future of
\* seq = f->then(...) and returned: seq is and stays cancelled; f is pending
\* unless the client resolves it; the call that resolves f, made after that
\* cancel has returned, invokes neither ok nor a failure handler, makes no call that
\* resolves seq and returns normally; and a future that ok or a handler
\* returned (in a call on f that raced with the cancel) is cancelled once
\* that call has ended.
C14_CancelledBeforeSource ==
    \A c \in WonCalls("seq", "cancel") :
        /\ is_cancelled("seq") /\ first["seq"].state = "cancelled"
        /\ (\A i \in OpIdx : ~(IsResolve(ops[i]) /\ ops[i].fut = "f")) => is_pending("f")
        /\ \A i \in OpIdx :
              (/\ IsResolve(ops[i]) /\ ops[i].fut = "f" /\ ops[i].won
               /\ i > c /\ ~Overlap(i, c)) =>
                  /\ \A j \in CallIdx : calls[j].op # i
                  /\ ops[i].res \in {"run", "ok"}
                  /\ cur[ops[i].t] = i =>
                        \A fr \in FramesOn(ops[i].t) :
                            ~(fr.op = "apply_state" /\ fr.fut = "seq")
        /\ \A j \in CallIdx :
              (/\ calls[j].kind \in {"ok", "handler"} /\ calls[j].beh = "ret"
               /\ ops[calls[j].op].res # "run") =>
                  is_cancelled(InnerOf(calls[j]))

\* then(ok); seq->cancel(); f->done(13): f is done, ok was not invoked, seq
\* is cancelled
C14_Witness ==
    /\ Len(ops) = 3
    /\ ops[1].kind = "then" /\ ops[2].kind = "cancel" /\ ops[2].fut = "seq"
    /\ ops[2].pre = "pending" /\ ops[2].with = 0 /\ ops[2].res = "ok"
    /\ ops[3].kind = "done" /\ ops[3].fut = "f" /\ ops[3].with = 0 /\ ops[3].res = "ok"
    /\ is_done("f") /\ is_cancelled("seq") /\ calls = <<>>

\* the inputs given to needs_all, as a set
Inputs == {p[k] : k \in 1..Len(p)}
\* the calls na = needs_all(inputs) that have returned; all inputs were
\* pending when the call was made
NeedsAllCalls ==
    {i \in OpIdx : /\ ops[i].kind = "needs_all" /\ ops[i].res # "run"
                   /\ \A r \in 1..(i - 1) : ~IsResolve(ops[r])}
\* the call r is the first the client made to resolve an input of needs_all
FirstOnInputs(r) ==
    /\ IsResolve(ops[r]) /\ ops[r].fut \in Inputs
    /\ \A q \in 1..(r - 1) : ~IsResolve(ops[q])
\* the inputs other than that of call r are cancelled
SiblingsCancelled(r) == \A o \in Inputs \ {ops[r].fut} : base_is_cancelled(o)

\* C16: needs_all called with no input has returned a future that is done.
C16_EmptyIsDone ==
    \A i \in OpIdx :
        (ops[i].kind = "needs_all" /\ ops[i].val = 0 /\ ops[i].res # "run") =>
            base_is_done("na")

\* C17: with na = needs_all over N >= 1 pending inputs and a client that
\* only completes inputs: na is pending while some input is not done, and na
\* is done once the done() calls on all N inputs have returned.
C17_DoneWhenAllDone ==
    \A i \in NeedsAllCalls :
        (ops[i].val >= 1 /\ \A r \in OpIdx : IsResolve(ops[r]) => ops[r].kind = "done") =>
            /\ (\E b \in Inputs : ~base_is_done(b)) => base_is_pending("na")
            /\ (\A b \in Inputs : \E r \in OpIdx :
                    ops[r].fut = b /\ ops[r].kind = "done" /\ ops[r].res # "run")
                  => base_is_done("na")

\* C18: with na = needs_all over pending inputs, when the first input to
\* resolve fails: na is never cancelled, and once that fail() has ended na is
\* failed with the failure of that input and every other input is cancelled.
C18_FailFast ==
    \A i \in NeedsAllCalls : \A r \in OpIdx :
        (r > i /\ FirstOnInputs(r) /\ ops[r].kind = "fail") =>
            /\ ~base_is_cancelled("na")
            /\ ops[r].res # "run" =>
                  /\ base_is_failed("na")
                  /\ base_ex_["na"] = base_ex_[ops[r].fut]
                  /\ SiblingsCancelled(r)

\* C19: with na = needs_all over pending inputs, when the first input to
\* resolve is cancelled: once that cancel() has ended na is failed, not
\* cancelled, and every other input is cancelled.
C19_CancelledInputFails ==
    \A i \in NeedsAllCalls : \A r \in OpIdx :
        (r > i /\ FirstOnInputs(r) /\ ops[r].kind = "cancel" /\ ops[r].res # "run") =>
            /\ base_is_failed("na")
            /\ SiblingsCancelled(r)

\* C20: the lambdas of needs_all never call done, fail or cancel on an
\* aggregate that is already resolved (the client itself never resolves it).
C20_AggregateResolvedOnce ==
    \A t \in Threads : \A fr \in FramesOn(t) :
        (fr.op = "base_resolve" /\ fr.fut = "na" /\ fr.pc = "mark") =>
            base_is_pending("na")

\* the call that resolved the future<T> x, as kind
Winner(x, kind) == {j \in OpIdx : ops[j].fut = x /\ ops[j].kind = kind /\ ops[j].won}
\* thread t takes a step of value() or failure_reason(), the call included
Reads(t) ==
    \/ ~Idle(t) /\ Top(t).op \in {"value", "failure_reason"} /\ stack'[t] # stack[t]
    \/ Idle(t) /\ stack'[t] # <<>> /\ stack'[t][1].op \in {"value", "failure_reason"}

\* C24: value() on a cps::future<T> ends according to the state it read: it
\* returns the value given to done() when done, throws "future is not
\* complete" when pending, "future was cancelled" when cancelled, and the
\* error given to fail() when failed; no step of it waits for the mutex or
\* changes a member of a future.
C24_ValueByState ==
    /\ [](\A i \in OpIdx :
            (ops[i].kind = "value" /\ ops[i].res # "run") =>
                CASE ops[i].pre = "pending" ->
                       /\ ops[i].res = "threw"
                       /\ ops[i].err = RuntimeError("future is not complete")
                  [] ops[i].pre = "cancelled" ->
                       /\ ops[i].res = "threw"
                       /\ ops[i].err = RuntimeError("future was cancelled")
                  [] ops[i].pre = "failed" ->
                       /\ ops[i].res = "threw"
                       /\ \E j \in Winner(ops[i].fut, "fail") :
                             j < i /\ ops[i].err = RuntimeError(ops[j].why)
                  [] ops[i].pre = "done" ->
                       /\ ops[i].res = "ok"
                       /\ \E j \in Winner(ops[i].fut, "done") :
                             j < i /\ ops[i].val = ops[j].val)
    /\ [][\A t \in Threads : Reads(t) => UNCHANGED tvars]_vars

\* value() threw "not complete" while the other thread was inside done(v),
\* and a later value() returned v
C24_Witness ==
    \E i, j, k \in OpIdx :
        /\ ops[i].kind = "value" /\ ops[i].res = "threw" /\ ops[i].with = k
        /\ ops[k].kind = "done" /\ ops[k].won
        /\ ops[j].kind = "value" /\ ops[j].res = "ok" /\ ops[j].val = ops[k].val
        /\ ops[j].val # DefaultValue

\* C25: failure_reason() on a cps::future<T> returns the message given to
\* fail(message) when the state it read is failed, and throws "future is not
\* failed" when it is pending, done or cancelled.
C25_FailureReasonByState ==
    \A i \in OpIdx :
        (ops[i].kind = "failure_reason" /\ ops[i].res # "run") =>
            IF ops[i].pre = "failed"
            THEN /\ ops[i].res = "ok"
                 /\ \E j \in Winner(ops[i].fut, "fail") : j < i /\ ops[i].why = ops[j].why
            ELSE /\ ops[i].res = "threw"
                 /\ ops[i].err = RuntimeError("future is not failed")

\* failure_reason() threw while fail(message) was running on the other
\* thread, and a later failure_reason() returned the message
C25_Witness ==
    \E i, j, k \in OpIdx :
        /\ ops[i].kind = "failure_reason" /\ ops[i].res = "threw" /\ ops[i].with = k
        /\ ops[k].kind = "fail" /\ ops[k].won
        /\ ops[j].kind = "failure_reason" /\ ops[j].res = "ok"
        /\ ops[j].why = ops[k].why /\ ops[j].why # ""

\* thread t holds the mutex of some future<T>
HoldsMutex(t) == \E f \in Futs : mutex_[f] = t

\* C27: the mutex of a cps::future<T> is held only by a thread that is in
\* apply_state on that future between taking the lock and storing the state:
\* a thread that invokes a callback, or waits for a mutex inside one (to
\* register on the same future, to return shared()), holds no mutex, so it
\* never waits for itself.
C27_NoLockInCallbacks ==
    /\ [](\A t \in Threads :
            /\ \A f \in Futs :
                  mutex_[f] = t =>
                      /\ ~Idle(t) /\ Top(t).op = "apply_state"
                      /\ Top(t).fut = f /\ Top(t).pc = "state"
            /\ (~Idle(t) /\ Top(t).op \in {"apply_state", "call_when_ready"}
                 /\ Top(t).pc \in {"lock", "call", "drain", "ret"}) => ~HoldsMutex(t))
    /\ [][\A t \in Threads :
            (stack'[t] # stack[t] /\ calls' # calls) => ~HoldsMutex(t)]_vars

\* f->done(v) drained a callback that registered another callback on f, and
\* that one was run inside the registration; done(v) returned normally
C27_Witness ==
    \E j \in CallIdx :
        /\ impl = "future"
        /\ calls[j].parent # 0
        /\ ops[calls[j].op].kind = "done" /\ ops[calls[j].op].res = "ok"
        /\ \A f \in Futs : mutex_[f] = "free"

\* C30: whenever the mutex of a cps::future<T> is free, a future that is not
\* pending has an empty tasks_; and once no call is running, nothing holds a
\* callback that was registered on a resolved future.
C30_ResolvedHoldsNoCallback ==
    \A f \in Futs :
        state_[f] # "pending" =>
            /\ mutex_[f] = "free" => tasks_[f] = <<>>
            /\ (\A t \in Threads : Idle(t)) => Held(f) = {}

\* callbacks were queued on f by both threads' calls, f was resolved, a
\* callback was registered after that, and f holds none of them
C30_Witness ==
    /\ state_["f"] # "pending" /\ tasks_["f"] = <<>> /\ mutex_["f"] = "free"
    /\ \A t \in Threads : Idle(t)
    /\ \E i, j \in OpIdx :
          /\ IsRegister(ops[i]) /\ ops[i].queued /\ CallsOf(ops[i].id) # {}
          /\ IsRegister(ops[j]) /\ ops[j].pre # "pending" /\ ~ops[j].queued

\* the client calls done, fail or cancel at most once on each future<T>
OncePerFuture ==
    \A x \in Futs : Cardinality({i \in OpIdx : IsResolve(ops[i]) /\ ops[i].fut = x}) <= 1

\* C28: with seq = f->then(...) and a client that resolves each of f, the
\* inner future and seq at most once: a lambda of then() never calls done,
\* fail or cancel on a future that is already resolved, and no call the
\* client makes on a pending future ends with the double-resolve error (so
\* seq->cancel() with the inner future pending returns normally).
C28_WiringNeverDoubleResolves ==
    OncePerFuture =>
        /\ \A t \in Threads : \A d \in 2..Len(stack[t]) :
              (stack[t][d].op = "apply_state" /\ stack[t][d].pc = "lock") =>
                  is_pending(stack[t][d].fut)
        /\ \A i \in OpIdx :
              (IsResolve(ops[i]) /\ ops[i].pre = "pending") =>
                  ~(ops[i].res = "threw" /\ ops[i].err = DoubleResolve)

\* the calls the client made to resolve the base_future x
BaseResolves(x) == {i \in OpIdx : IsResolve(ops[i]) /\ ops[i].fut = x}
\* the invocations of the lambdas of propagate
PropagateCalls == SelectSeq(calls, LAMBDA c : c.beh \in {"pg_done", "pg_cancel", "pg_fail"})

LoopCalls == SelectSeq(calls, LAMBDA c : c.kind \in {"check", "each"})
\* the futures each has returned
Bodies == {BodyOf(j) : j \in 1..Len(EachCalls)}
\* the body future x is done and the call that made it so has ended
BodyCompleted(x) ==
    \/ \E j \in 1..Len(EachCalls) : EachCalls[j].fut = x /\ EachCalls[j].beh = "done"
    \/ \E r \in BaseResolves(x) : ops[r].kind = "done" /\ ops[r].res # "run"
\* the client only completes body futures, each at most once
OnlyCompletes ==
    /\ \A i \in OpIdx : IsResolve(ops[i]) => ops[i].kind = "done" /\ ops[i].fut # "lf"
    /\ \A x \in {BodyOf(j) : j \in 1..MaxIter} : Cardinality(BaseResolves(x)) <= 1

\* C21: with lf = repeat(check, each) returned, check answering false k
\* times and then true, and a client that only completes the futures each
\* returns: check and each are invoked in turn (check, each, check, ...), at
\* most k + 1 and k times; every check after the first is passed the
\* previous body future, which is then done; and once every body future each
\* has returned is completed, check has been invoked k + 1 times, each k
\* times, and lf is done.
C21_RepeatUntilCheck ==
    \A i \in OpIdx :
        (ops[i].kind = "repeat" /\ ops[i].res = "ok" /\ OnlyCompletes) =>
            /\ Len(CheckCalls) <= ops[i].val + 1
            /\ Len(EachCalls) <= ops[i].val
            /\ \A c \in 1..Len(LoopCalls) :
                  LoopCalls[c].kind = IF c % 2 = 1 THEN "check" ELSE "each"
            /\ \A c \in 2..Len(CheckCalls) :
                  /\ CheckCalls[c].fut = BodyOf(c - 1)
                  /\ CheckCalls[c].st = "complete"
            /\ (\A x \in Bodies : BodyCompleted(x)) =>
                  /\ Len(CheckCalls) = ops[i].val + 1
                  /\ Len(EachCalls) = ops[i].val
                  /\ base_is_done("lf")

\* C22: with lf = repeat(check, each), once a call that fails or cancels a
\* pending body future has ended: lf is failed (as long as the client does
\* not resolve lf itself afterwards), and check and each were last invoked
\* before that call.
C22_BodyFailureStopsLoop ==
    \A r \in OpIdx :
        (/\ ops[r].fut \in Bodies /\ ops[r].kind \in {"fail", "cancel"}
         /\ ops[r].pre = "pending" /\ ops[r].res # "run") =>
            /\ (\A i \in OpIdx : i > r => ops[i].fut # "lf") => base_is_failed("lf")
            /\ \A c \in 1..Len(LoopCalls) : LoopCalls[c].op < r

\* check answered false twice; the first body future came back done, the
\* second pending; the client failed the second: lf is failed
C22_Witness ==
    \E r \in OpIdx :
        /\ ops[r].fut = "b2" /\ ops[r].kind = "fail" /\ ops[r].pre = "pending"
        /\ ops[r].res = "ok"
        /\ Len(EachCalls) = 2 /\ Len(CheckCalls) = 2
        /\ base_is_failed("lf") /\ base_is_failed("n2") /\ base_is_failed("n1")

\* C23: with lf = repeat(check, each), once the client's lf->cancel() on
\* the pending loop future has returned, neither check nor each is invoked:
\* every invocation of them was made by a call before the cancel.
C23_CancelStopsLoop ==
    \A c \in OpIdx :
        (/\ ops[c].fut = "lf" /\ ops[c].kind = "cancel" /\ ops[c].pre = "pending"
         /\ ops[c].res = "ok") =>
            \A k \in 1..Len(LoopCalls) : LoopCalls[k].op < c

\* lf was cancelled while the first body future was pending; b1->done()
\* then ran the lambda given to then and returned: check was not invoked a
\* second time
C23_Witness ==
    \E c, r \in OpIdx : \E k \in CallIdx :
        /\ ops[c].fut = "lf" /\ ops[c].kind = "cancel" /\ ops[c].pre = "pending"
        /\ ops[c].res = "ok"
        /\ r > c /\ ops[r].fut = "b1" /\ ops[r].kind = "done" /\ ops[r].pre = "pending"
        /\ ops[r].res = "ok"
        /\ calls[k].beh = "th_done" /\ calls[k].op = r
        /\ Len(CheckCalls) = 1 /\ RepeatOp.val >= 1

\* C29: the lambdas of repeat, then and propagate never call done, fail or
\* cancel on a loop future that is already resolved; and a loop future the
\* client cancelled while it was pending stays cancelled.
C29_LoopResolvedOnce ==
    /\ \A t \in Threads : \A d \in 2..Len(stack[t]) :
          (/\ stack[t][d].op = "base_resolve" /\ stack[t][d].fut = "lf"
           /\ stack[t][d].pc = "mark") => base_is_pending("lf")
    /\ \A c \in OpIdx :
          (/\ ops[c].fut = "lf" /\ ops[c].kind = "cancel" /\ ops[c].pre = "pending"
           /\ ops[c].won) => base_is_cancelled("lf")

\* thread t has read the state of the future<T> f as s, inside value() or
\* failure_reason(), and has not read the payload yet
Observed(t, f, s) ==
    /\ ~Idle(t) /\ Top(t).op \in {"value", "failure_reason"}
    /\ Top(t).fut = f /\ Top(t).s = s

\* C31: on a cps::future<T> shared by two threads, in every state any
\* interleaving reaches: while state_ is done, value_ is the value of the
\* done(v) call that made the transition, and while it is failed,
\* failure_reason_ and ex_ are those of the fail(message) call that made
\* it; the same holds from the moment a thread has loaded done or failed
\* from state_, so the payload it reads next is the one stored.
C31_PayloadBeforeState ==
    \A f \in Futs :
        /\ (is_done(f) \/ \E t \in Threads : Observed(t, f, "done")) =>
              \E j \in Winner(f, "done") : value_[f] = ops[j].val
        /\ (is_failed(f) \/ \E t \in Threads : Observed(t, f, "failed")) =>
              \E j \in Winner(f, "fail") :
                  /\ failure_reason_[f] = ops[j].why
                  /\ ex_[f] = RuntimeError(ops[j].why)

\* while done(v) is still running on one thread (state stored, call not
\* returned), value() on the other thread saw done and returned v
C31_Witness ==
    \E i, k \in OpIdx :
        /\ ops[k].kind = "done" /\ ops[k].won /\ ops[k].res = "run"
        /\ ops[i].kind = "value" /\ ops[i].with = k /\ ops[i].pre = "done"
        /\ ops[i].res = "ok" /\ ops[i].val = ops[k].val
        /\ ops[i].val # DefaultValue

\* C32: on a cps::base_future, once the client's fail(message) on the
\* pending future has ended and the client has not resolved the future
\* again: the future is failed, failure() returns that message, and every
\* on_fail callback that ran was passed failure information whose reason()
\* is that message.
C32_FailureCarriesMessage ==
    \A i \in OpIdx :
        (/\ ops[i].fut \in BaseFuts /\ ops[i].kind = "fail" /\ ops[i].pre = "pending"
         /\ ops[i].res # "run"
         /\ \A j \in OpIdx : (j # i /\ IsResolve(ops[j])) => ops[j].fut # ops[i].fut) =>
            /\ base_is_failed(ops[i].fut)
            /\ failure(ops[i].fut) = [ok |-> TRUE, r |-> ops[i].why, ex |-> NoEx]
            /\ \A c \in CallIdx :
                  (calls[c].fut = ops[i].fut /\ calls[c].kind = "on_fail") =>
                      calls[c].why = ops[i].why

====
